---- MODULE Spec2Model ----
(***************************************************************************)
(* Verification model of the playdate-engine core: the fixed-capacity      *)
(* object pool (src/core/memory_pool.c) and the uniform spatial grid built *)
(* on it (src/systems/spatial_grid.c).                                     *)
(*                                                                         *)
(* Pointers are modelled as integer addresses, NULL as 0.  A pool slot     *)
(* pointer is memory + index * elementSize, as the code computes it.       *)
(***************************************************************************)
EXTENDS Integers, Naturals, Sequences, FiniteSets, TLC

(***************************************************************************)
(* Bounds of the model                                                     *)
(***************************************************************************)

\* capacity passed to object_pool_init for the stand-alone pool
PoolCapacity == 3

\* successful allocations explored on the stand-alone pool
MaxAllocs == 5

\* uint32_t arithmetic wraps.  The model wraps at WordModulus, a reduced
\* word size (TLC integers are 32-bit signed, 2^32 itself cannot be written).
\* Every counter of the model stays far below it, so the only wrap that can
\* occur is the underflow of a subtraction, exactly as in the code.
WordModulus == 65536

\* gridWidth and gridHeight passed to spatial_grid_create
GridWidth == 3

GridHeight == 2

\* maxObjects passed to spatial_grid_create: capacity of the entry pool and
\* size of the lookup table
GridMaxObjects == 3

\* entries taken from the grid's entry pool in one run (totalAllocations)
MaxGridAllocs == 3

\* entries taken from the entry pool in one run of the query scenarios
MaxQueryAllocs == 2

\* maxResults passed to spatial_query_create
QueryMaxResults == 2

\* counted circle queries in one run of the query scenarios (queriesPerFrame)
MaxQueries == 1

\* counted circle queries in one run of the result-buffer scenarios
MaxBufferQueries == 2

\* maxGameObjects passed to scene_create: capacity of the gameObjectPool and
\* of the gameObjects array
SceneMaxGameObjects == 3

\* calls of game_object_create in one run (g_nextGameObjectId - 1)
MaxCreates == 3

\* calls of scene_add_game_object made by the caller in one run
MaxSceneAdds == 2

\* maxObjects of the grid of the full-pool scenarios: small enough for the
\* entry pool to be full before the last entry of a run is taken
FullMaxObjects == 2

\* maxResults passed to spatial_query_create in the result-buffer scenarios
BufferMaxResults == 1

(***************************************************************************)
(* Program constants                                                       *)
(***************************************************************************)

NULL == 0

MEMORY_ALIGNMENT == 16

\* sizeof(TestObject): int + float[3] + char[4]
TestObjectSize == 20

\* addresses aligned_alloc may return for a pool's block (16-aligned, far
\* enough apart that two pools never overlap)
PoolBases == {4096, 8192}

\* sizeof(GridObjectEntry): two pointers, two uint32_t, one bool, padding
GridObjectEntrySize == 32

\* cellSize of the grids of the tests
GridCellSize == 64

MAX_OBJECTS_PER_CELL == 32

\* the block aligned_alloc returns for the grid's entry pool
EntryPoolMemory == 16384

U32(x) == x % WordModulus

\* ALIGN_SIZE(size) = (size + 15) & ~15 : clear the low four bits
ALIGN_SIZE(size) ==
    LET s == U32(size + MEMORY_ALIGNMENT - 1)
    IN  s - (s % MEMORY_ALIGNMENT)

(***************************************************************************)
(* Object pool                                                             *)
(***************************************************************************)

\* object_pool_init: the pool after a successful initialisation whose
\* aligned_alloc returned the block address `memory`
object_pool_init(memory, elementSize, capacity) ==
    [ memory            |-> memory,
      freeList          |-> [i \in 0..(capacity - 1) |-> capacity - 1 - i],
      objectStates      |-> [i \in 0..(capacity - 1) |-> 0],
      elementSize       |-> ALIGN_SIZE(elementSize),
      capacity          |-> capacity,
      freeCount         |-> capacity,
      freeHead          |-> 0,
      totalAllocations  |-> 0,
      totalDeallocations|-> 0,
      peakUsage         |-> 0 ]

object_pool_get_used_count(p) == U32(p.capacity - p.freeCount)

object_pool_get_free_count(p) == p.freeCount

object_pool_owns_object(p, object) ==
    IF object = NULL THEN FALSE
    ELSE LET poolStart == p.memory
             poolEnd   == poolStart + U32(p.capacity * p.elementSize)
         IN  /\ object >= poolStart
             /\ object < poolEnd
             /\ ((object - poolStart) % p.elementSize) = 0

object_pool_get_object_index(p, object) ==
    U32((object - p.memory) \div p.elementSize)

\* alloc that forgets to take the slot off the free count
object_pool_alloc_keeps_count(p) ==
    IF p.freeCount = 0 \/ p.freeHead >= p.capacity
    THEN [pool |-> p, ret |-> NULL]
    ELSE LET index == p.freeList[p.freeHead]
         IN  [pool |-> [p EXCEPT !.freeHead = U32(p.freeHead + 1),
                                 !.objectStates[index] = 1,
                                 !.totalAllocations = U32(p.totalAllocations + 1)],
              ret  |-> p.memory + U32(index * p.elementSize)]

\* alloc that reads the stack top but never advances freeHead
object_pool_alloc_no_pop(p) ==
    IF p.freeCount = 0
    THEN [pool |-> p, ret |-> NULL]
    ELSE LET index == p.freeList[p.freeHead]
             fc    == U32(p.freeCount - 1)
             usage == U32(p.capacity - fc)
         IN  [pool |-> [p EXCEPT !.freeCount = fc,
                                 !.objectStates[index] = 1,
                                 !.totalAllocations = U32(p.totalAllocations + 1),
                                 !.peakUsage = IF usage > p.peakUsage THEN usage
                                               ELSE p.peakUsage],
              ret  |-> p.memory + U32(index * p.elementSize)]

\* alloc that bumps the statistics before it tests for exhaustion
object_pool_alloc_counts_first(p) ==
    IF p.freeCount = 0
    THEN [pool |-> [p EXCEPT !.totalAllocations = U32(p.totalAllocations + 1)],
          ret |-> NULL]
    ELSE LET index == p.freeList[p.freeHead]
             fc    == U32(p.freeCount - 1)
             usage == U32(p.capacity - fc)
         IN  [pool |-> [p EXCEPT !.freeHead = U32(p.freeHead + 1),
                                 !.freeCount = fc,
                                 !.objectStates[index] = 1,
                                 !.totalAllocations = U32(p.totalAllocations + 1),
                                 !.peakUsage = IF usage > p.peakUsage THEN usage
                                               ELSE p.peakUsage],
              ret  |-> p.memory + U32(index * p.elementSize)]

\* alloc whose peakUsage follows the current usage
object_pool_alloc_peak_is_usage(p) ==
    IF p.freeCount = 0
    THEN [pool |-> p, ret |-> NULL]
    ELSE LET index == p.freeList[p.freeHead]
             fc    == U32(p.freeCount - 1)
             usage == U32(p.capacity - fc)
         IN  [pool |-> [p EXCEPT !.freeHead = U32(p.freeHead + 1),
                                 !.freeCount = fc,
                                 !.objectStates[index] = 1,
                                 !.totalAllocations = U32(p.totalAllocations + 1),
                                 !.peakUsage = usage],
              ret  |-> p.memory + U32(index * p.elementSize)]

\* object_pool_alloc: [pool |-> the pool afterwards, ret |-> returned pointer]
object_pool_alloc(p) ==
    IF p.freeCount = 0
    THEN [pool |-> p, ret |-> NULL]
    ELSE LET index == p.freeList[p.freeHead]
             fc    == U32(p.freeCount - 1)
             usage == U32(p.capacity - fc)
         IN  [pool |-> [p EXCEPT !.freeHead = U32(p.freeHead + 1),
                                 !.freeCount = fc,
                                 !.objectStates[index] = 1,
                                 !.totalAllocations = U32(p.totalAllocations + 1),
                                 !.peakUsage = IF usage > p.peakUsage THEN usage
                                               ELSE p.peakUsage],
              ret  |-> p.memory + U32(index * p.elementSize)]

\* push that slides the slot in under the top of the free-list stack
PoolPush_under_top(p, index) ==
    IF p.freeHead = 0
    THEN [pool |-> [p EXCEPT !.objectStates[index] = 0],
          ret  |-> "POOL_ERROR_POOL_FULL"]
    ELSE LET fh == U32(p.freeHead - 1)
         IN  [pool |-> [p EXCEPT !.objectStates[index] = 0,
                                 !.freeHead = fh,
                                 !.freeList =
                                     IF p.freeHead < p.capacity
                                     THEN [p.freeList EXCEPT ![fh] = p.freeList[p.freeHead],
                                                             ![p.freeHead] = index]
                                     ELSE [p.freeList EXCEPT ![fh] = index],
                                 !.freeCount = U32(p.freeCount + 1),
                                 !.totalDeallocations = U32(p.totalDeallocations + 1)],
              ret  |-> "POOL_OK"]

\* the push of object_pool_free, after the state byte has been cleared
PoolPush(p, index) ==
    IF p.freeHead = 0
    THEN [pool |-> [p EXCEPT !.objectStates[index] = 0],
          ret  |-> "POOL_ERROR_POOL_FULL"]
    ELSE LET fh == U32(p.freeHead - 1)
         IN  [pool |-> [p EXCEPT !.objectStates[index] = 0,
                                 !.freeHead = fh,
                                 !.freeList[fh] = index,
                                 !.freeCount = U32(p.freeCount + 1),
                                 !.totalDeallocations = U32(p.totalDeallocations + 1)],
              ret  |-> "POOL_OK"]

\* free without the state-byte test
object_pool_free_no_double_check(p, object) ==
    IF object = NULL THEN [pool |-> p, ret |-> "POOL_ERROR_NULL_POINTER"]
    ELSE IF ~object_pool_owns_object(p, object)
    THEN [pool |-> p, ret |-> "POOL_ERROR_INVALID_INDEX"]
    ELSE PoolPush(p, object_pool_get_object_index(p, object))

\* free whose ownership test is the range test only
object_pool_free_range_only(p, object) ==
    IF object = NULL THEN [pool |-> p, ret |-> "POOL_ERROR_NULL_POINTER"]
    ELSE IF ~(object >= p.memory /\ object < p.memory + U32(p.capacity * p.elementSize))
    THEN [pool |-> p, ret |-> "POOL_ERROR_INVALID_INDEX"]
    ELSE LET index == object_pool_get_object_index(p, object)
         IN  IF p.objectStates[index] = 0
             THEN [pool |-> p, ret |-> "POOL_ERROR_DOUBLE_FREE"]
             ELSE PoolPush(p, index)

\* free that pushes the slot back but leaves its state byte set
object_pool_free_keeps_state(p, object) ==
    IF object = NULL THEN [pool |-> p, ret |-> "POOL_ERROR_NULL_POINTER"]
    ELSE IF ~object_pool_owns_object(p, object)
    THEN [pool |-> p, ret |-> "POOL_ERROR_INVALID_INDEX"]
    ELSE LET index == object_pool_get_object_index(p, object)
         IN  IF p.objectStates[index] = 0
             THEN [pool |-> p, ret |-> "POOL_ERROR_DOUBLE_FREE"]
             ELSE LET r == PoolPush(p, index)
                  IN  [pool |-> [r.pool EXCEPT !.objectStates[index] = 1],
                       ret  |-> r.ret]

\* object_pool_free: [pool |-> the pool afterwards, ret |-> PoolResult]
object_pool_free(p, object) ==
    IF object = NULL THEN [pool |-> p, ret |-> "POOL_ERROR_NULL_POINTER"]
    ELSE IF ~object_pool_owns_object(p, object)
    THEN [pool |-> p, ret |-> "POOL_ERROR_INVALID_INDEX"]
    ELSE LET index == object_pool_get_object_index(p, object)
         IN  IF p.objectStates[index] = 0
             THEN [pool |-> p, ret |-> "POOL_ERROR_DOUBLE_FREE"]
             ELSE PoolPush(p, index)

(***************************************************************************)
(* Spatial grid                                                            *)
(*                                                                         *)
(* A GameObject pointer is the handle of the object (1, 2, ...), a         *)
(* GridObjectEntry pointer is the address of its slot in the entry pool's  *)
(* block, a GridCell pointer is the index of the cell in grid.cells.       *)
(* World coordinates are whole numbers, which float arithmetic represents  *)
(* exactly at this size.                                                   *)
(***************************************************************************)

NoCell == -1

\* contents of a slot of the entry pool's block that was never written
Unwritten == "unwritten"

\* spatial_grid_create: the grid after a successful creation
spatial_grid_create(cellSize, gridWidth, gridHeight, worldOffsetX, worldOffsetY, maxObjects) ==
    LET entryPool == object_pool_init(EntryPoolMemory, GridObjectEntrySize, maxObjects)
    IN  [ cells            |-> [i \in 0..(U32(gridWidth * gridHeight) - 1) |->
                                   [objects |-> NULL, objectCount |-> 0,
                                    maxObjects |-> MAX_OBJECTS_PER_CELL, dirty |-> FALSE]],
          cellSize         |-> cellSize,
          gridWidth        |-> gridWidth,
          gridHeight       |-> gridHeight,
          worldWidth       |-> U32(gridWidth * cellSize),
          worldHeight      |-> U32(gridHeight * cellSize),
          offsetX          |-> worldOffsetX,
          offsetY          |-> worldOffsetY,
          entryPool        |-> entryPool,
          entryMem         |-> [a \in {entryPool.memory + i * entryPool.elementSize :
                                        i \in 0..(maxObjects - 1)} |-> Unwritten],
          objectLookup     |-> [i \in 0..(maxObjects - 1) |-> NULL],
          totalObjects     |-> 0,
          maxObjects       |-> maxObjects,
          queriesPerFrame  |-> 0,
          cellsWithObjects |-> 0 ]

\* conversion whose upper bounds test lets the far edge of the world pass
spatial_grid_world_to_cell_far_edge(g, worldX, worldY, cellX, cellY) ==
    LET adjustedX == worldX - g.offsetX
        adjustedY == worldY - g.offsetY
    IN  IF adjustedX < 0 \/ adjustedY < 0
           \/ adjustedX > g.worldWidth \/ adjustedY > g.worldHeight
        THEN [ok |-> FALSE, cellX |-> cellX, cellY |-> cellY]
        ELSE [ok |-> TRUE, cellX |-> adjustedX \div g.cellSize,
                           cellY |-> adjustedY \div g.cellSize]

\* spatial_grid_world_to_cell with the contents of the caller's *cellX and
\* *cellY before the call: [ok |-> returned bool, cellX, cellY |-> their
\* contents afterwards]
spatial_grid_world_to_cell_out(g, worldX, worldY, cellX, cellY) ==
    LET adjustedX == worldX - g.offsetX
        adjustedY == worldY - g.offsetY
    IN  IF adjustedX < 0 \/ adjustedY < 0
           \/ adjustedX >= g.worldWidth \/ adjustedY >= g.worldHeight
        THEN [ok |-> FALSE, cellX |-> cellX, cellY |-> cellY]
        ELSE [ok |-> TRUE, cellX |-> adjustedX \div g.cellSize,
                           cellY |-> adjustedY \div g.cellSize]

\* spatial_grid_world_to_cell called with uninitialised locals, as add,
\* update and the circle query call it
spatial_grid_world_to_cell(g, worldX, worldY) ==
    spatial_grid_world_to_cell_out(g, worldX, worldY, Unwritten, Unwritten)

\* spatial_grid_get_cell: the cell's index in grid.cells, NoCell for NULL
spatial_grid_get_cell(g, cellX, cellY) ==
    IF cellX >= g.gridWidth \/ cellY >= g.gridHeight
    THEN NoCell
    ELSE U32(U32(cellY * g.gridWidth) + cellX)

\* ids as indices counted from 0: the id maxObjects gets the last slot of
\* the lookup table
game_object_get_id_from_zero(os, gameObject) ==
    IF gameObject = NULL THEN 0 ELSE os[gameObject].id - 1

game_object_get_id(os, gameObject) ==
    IF gameObject = NULL THEN 0 ELSE os[gameObject].id

game_object_is_static(os, gameObject) ==
    IF gameObject = NULL THEN FALSE ELSE os[gameObject].staticObject

game_object_is_active(os, gameObject) ==
    IF gameObject = NULL THEN FALSE ELSE os[gameObject].active

\* add that takes the entry from the pool before it converts the position,
\* and returns without giving it back when the position is outside the grid
spatial_grid_add_object_allocs_first(g, os, gameObject) ==
    IF gameObject = NULL THEN [grid |-> g, ret |-> FALSE]
    ELSE
    LET a == object_pool_alloc(g.entryPool)
    IN  IF a.ret = NULL THEN [grid |-> g, ret |-> FALSE]
        ELSE
        LET wc == spatial_grid_world_to_cell(g, os[gameObject].x, os[gameObject].y)
        IN  IF ~wc.ok THEN [grid |-> [g EXCEPT !.entryPool = a.pool], ret |-> FALSE]
            ELSE
            LET cell == spatial_grid_get_cell(g, wc.cellX, wc.cellY)
                entry == [gameObject   |-> gameObject,
                          next         |-> g.cells[cell].objects,
                          cellX        |-> wc.cellX,
                          cellY        |-> wc.cellY,
                          staticObject |-> game_object_is_static(os, gameObject)]
                count == U32(g.cells[cell].objectCount + 1)
                objectId == game_object_get_id(os, gameObject)
            IN  [grid |-> [g EXCEPT
                     !.entryPool = a.pool,
                     !.entryMem[a.ret] = entry,
                     !.cells[cell].objects = a.ret,
                     !.cells[cell].objectCount = count,
                     !.cells[cell].dirty =
                         IF count > g.cells[cell].maxObjects THEN TRUE
                         ELSE g.cells[cell].dirty,
                     !.totalObjects = U32(g.totalObjects + 1),
                     !.cellsWithObjects =
                         IF count = 1 THEN U32(g.cellsWithObjects + 1)
                         ELSE g.cellsWithObjects,
                     !.objectLookup = IF objectId < g.maxObjects
                                      THEN [g.objectLookup EXCEPT ![objectId] = a.ret]
                                      ELSE g.objectLookup],
                 ret |-> TRUE]

\* spatial_grid_add_object: [grid |-> the grid afterwards, ret |-> returned bool]
spatial_grid_add_object(g, os, gameObject) ==
    IF gameObject = NULL THEN [grid |-> g, ret |-> FALSE]
    ELSE
    LET wc == spatial_grid_world_to_cell(g, os[gameObject].x, os[gameObject].y)
    IN  IF ~wc.ok THEN [grid |-> g, ret |-> FALSE]
        ELSE
        LET a == object_pool_alloc(g.entryPool)
        IN  IF a.ret = NULL THEN [grid |-> [g EXCEPT !.entryPool = a.pool], ret |-> FALSE]
            ELSE
            LET cell == spatial_grid_get_cell(g, wc.cellX, wc.cellY)
            IN  IF cell = NoCell
                THEN [grid |-> [g EXCEPT !.entryPool = object_pool_free(a.pool, a.ret).pool,
                                         !.entryMem[a.ret] =
                                             [gameObject   |-> gameObject,
                                              next         |-> NULL,
                                              cellX        |-> wc.cellX,
                                              cellY        |-> wc.cellY,
                                              staticObject |-> game_object_is_static(os, gameObject)]],
                      ret |-> FALSE]
                ELSE
                LET entry == [gameObject   |-> gameObject,
                              next         |-> g.cells[cell].objects,
                              cellX        |-> wc.cellX,
                              cellY        |-> wc.cellY,
                              staticObject |-> game_object_is_static(os, gameObject)]
                    count == U32(g.cells[cell].objectCount + 1)
                    objectId == game_object_get_id(os, gameObject)
                IN  [grid |-> [g EXCEPT
                         !.entryPool = a.pool,
                         !.entryMem[a.ret] = entry,
                         !.cells[cell].objects = a.ret,
                         !.cells[cell].objectCount = count,
                         !.cells[cell].dirty =
                             IF count > g.cells[cell].maxObjects THEN TRUE
                             ELSE g.cells[cell].dirty,
                         !.totalObjects = U32(g.totalObjects + 1),
                         !.cellsWithObjects =
                             IF count = 1 THEN U32(g.cellsWithObjects + 1)
                             ELSE g.cellsWithObjects,
                         !.objectLookup = IF objectId < g.maxObjects
                                          THEN [g.objectLookup EXCEPT ![objectId] = a.ret]
                                          ELSE g.objectLookup],
                     ret |-> TRUE]

\* the scan of spatial_grid_remove_object for the predecessor of entry,
\* starting at prev: NULL when the list ends before entry is found
RECURSIVE FindPrev(_, _, _, _)
FindPrev(mem, prev, entry, fuel) ==
    IF prev = NULL \/ fuel = 0 THEN NULL
    ELSE IF mem[prev].next = entry THEN prev
    ELSE FindPrev(mem, mem[prev].next, entry, fuel - 1)

\* the entry memory after entry has been unlinked from the list of cell
UnlinkMem(g, cell, entry) ==
    IF g.cells[cell].objects = entry THEN g.entryMem
    ELSE LET prev == FindPrev(g.entryMem, g.cells[cell].objects, entry,
                              g.entryPool.capacity)
         IN  IF prev # NULL
             THEN [g.entryMem EXCEPT ![prev].next = g.entryMem[entry].next]
             ELSE g.entryMem

\* remove that unlinks and frees the entry but leaves totalObjects alone
spatial_grid_remove_object_keeps_total(g, os, gameObject) ==
    IF gameObject = NULL THEN [grid |-> g, ret |-> FALSE]
    ELSE
    LET objectId == game_object_get_id(os, gameObject)
    IN  IF objectId >= g.maxObjects THEN [grid |-> g, ret |-> FALSE]
        ELSE
        LET entry == g.objectLookup[objectId]
        IN  IF entry = NULL THEN [grid |-> g, ret |-> FALSE]
            ELSE
            LET cell == spatial_grid_get_cell(g, g.entryMem[entry].cellX,
                                                 g.entryMem[entry].cellY)
            IN  IF cell = NoCell THEN [grid |-> g, ret |-> FALSE]
                ELSE
                LET count == U32(g.cells[cell].objectCount - 1)
                IN  [grid |-> [g EXCEPT
                         !.entryMem = UnlinkMem(g, cell, entry),
                         !.cells[cell].objects =
                             IF g.cells[cell].objects = entry
                             THEN g.entryMem[entry].next ELSE g.cells[cell].objects,
                         !.cells[cell].objectCount = count,
                         !.cells[cell].dirty =
                             IF count = 0 THEN FALSE ELSE g.cells[cell].dirty,
                         !.cellsWithObjects =
                             IF count = 0 THEN U32(g.cellsWithObjects - 1)
                             ELSE g.cellsWithObjects,
                         !.objectLookup[objectId] = NULL,
                         !.entryPool = object_pool_free(g.entryPool, entry).pool],
                     ret |-> TRUE]

\* remove that leaves the entity's slot of the lookup table as it is
spatial_grid_remove_object_keeps_lookup(g, os, gameObject) ==
    IF gameObject = NULL THEN [grid |-> g, ret |-> FALSE]
    ELSE
    LET objectId == game_object_get_id(os, gameObject)
    IN  IF objectId >= g.maxObjects THEN [grid |-> g, ret |-> FALSE]
        ELSE
        LET entry == g.objectLookup[objectId]
        IN  IF entry = NULL THEN [grid |-> g, ret |-> FALSE]
            ELSE
            LET cell == spatial_grid_get_cell(g, g.entryMem[entry].cellX,
                                                 g.entryMem[entry].cellY)
            IN  IF cell = NoCell THEN [grid |-> g, ret |-> FALSE]
                ELSE
                LET count == U32(g.cells[cell].objectCount - 1)
                IN  [grid |-> [g EXCEPT
                         !.entryMem = UnlinkMem(g, cell, entry),
                         !.cells[cell].objects =
                             IF g.cells[cell].objects = entry
                             THEN g.entryMem[entry].next ELSE g.cells[cell].objects,
                         !.cells[cell].objectCount = count,
                         !.cells[cell].dirty =
                             IF count = 0 THEN FALSE ELSE g.cells[cell].dirty,
                         !.totalObjects = U32(g.totalObjects - 1),
                         !.cellsWithObjects =
                             IF count = 0 THEN U32(g.cellsWithObjects - 1)
                             ELSE g.cellsWithObjects,
                         !.entryPool = object_pool_free(g.entryPool, entry).pool],
                     ret |-> TRUE]

\* spatial_grid_remove_object: [grid |-> the grid afterwards, ret |-> returned bool]
spatial_grid_remove_object(g, os, gameObject) ==
    IF gameObject = NULL THEN [grid |-> g, ret |-> FALSE]
    ELSE
    LET objectId == game_object_get_id(os, gameObject)
    IN  IF objectId >= g.maxObjects THEN [grid |-> g, ret |-> FALSE]
        ELSE
        LET entry == g.objectLookup[objectId]
        IN  IF entry = NULL THEN [grid |-> g, ret |-> FALSE]
            ELSE
            LET cell == spatial_grid_get_cell(g, g.entryMem[entry].cellX,
                                                 g.entryMem[entry].cellY)
            IN  IF cell = NoCell THEN [grid |-> g, ret |-> FALSE]
                ELSE
                LET count == U32(g.cells[cell].objectCount - 1)
                IN  [grid |-> [g EXCEPT
                         !.entryMem = UnlinkMem(g, cell, entry),
                         !.cells[cell].objects =
                             IF g.cells[cell].objects = entry
                             THEN g.entryMem[entry].next ELSE g.cells[cell].objects,
                         !.cells[cell].objectCount = count,
                         !.cells[cell].dirty =
                             IF count = 0 THEN FALSE ELSE g.cells[cell].dirty,
                         !.totalObjects = U32(g.totalObjects - 1),
                         !.cellsWithObjects =
                             IF count = 0 THEN U32(g.cellsWithObjects - 1)
                             ELSE g.cellsWithObjects,
                         !.objectLookup[objectId] = NULL,
                         !.entryPool = object_pool_free(g.entryPool, entry).pool],
                     ret |-> TRUE]

\* update that takes the entry out and enters it again whenever the position
\* is inside the grid, without comparing the cells
spatial_grid_update_object_always_relinks(g, os, gameObject) ==
    IF gameObject = NULL THEN [grid |-> g, ret |-> FALSE]
    ELSE IF game_object_is_static(os, gameObject) THEN [grid |-> g, ret |-> TRUE]
    ELSE
    LET objectId == game_object_get_id(os, gameObject)
    IN  IF objectId >= g.maxObjects THEN [grid |-> g, ret |-> FALSE]
        ELSE
        LET entry == g.objectLookup[objectId]
        IN  IF entry = NULL THEN spatial_grid_add_object(g, os, gameObject)
            ELSE
            LET wc == spatial_grid_world_to_cell(g, os[gameObject].x, os[gameObject].y)
            IN  IF ~wc.ok THEN spatial_grid_remove_object(g, os, gameObject)
                ELSE spatial_grid_add_object(
                         spatial_grid_remove_object(g, os, gameObject).grid,
                         os, gameObject)

\* update that tests the id against maxObjects before it tests the static flag
spatial_grid_update_object_checks_id_first(g, os, gameObject) ==
    IF gameObject = NULL THEN [grid |-> g, ret |-> FALSE]
    ELSE
    LET objectId == game_object_get_id(os, gameObject)
    IN  IF objectId >= g.maxObjects THEN [grid |-> g, ret |-> FALSE]
        ELSE IF game_object_is_static(os, gameObject) THEN [grid |-> g, ret |-> TRUE]
        ELSE
        LET entry == g.objectLookup[objectId]
        IN  IF entry = NULL THEN spatial_grid_add_object(g, os, gameObject)
            ELSE
            LET wc == spatial_grid_world_to_cell(g, os[gameObject].x, os[gameObject].y)
            IN  IF ~wc.ok THEN spatial_grid_remove_object(g, os, gameObject)
                ELSE IF wc.cellX = g.entryMem[entry].cellX
                        /\ wc.cellY = g.entryMem[entry].cellY
                THEN [grid |-> g, ret |-> TRUE]
                ELSE spatial_grid_add_object(
                         spatial_grid_remove_object(g, os, gameObject).grid,
                         os, gameObject)

\* update that, on a move to another cell, rewrites the cell recorded in the
\* entry and leaves the entry in the list it is in
spatial_grid_update_object_restamps(g, os, gameObject) ==
    IF gameObject = NULL THEN [grid |-> g, ret |-> FALSE]
    ELSE IF game_object_is_static(os, gameObject) THEN [grid |-> g, ret |-> TRUE]
    ELSE
    LET objectId == game_object_get_id(os, gameObject)
    IN  IF objectId >= g.maxObjects THEN [grid |-> g, ret |-> FALSE]
        ELSE
        LET entry == g.objectLookup[objectId]
        IN  IF entry = NULL THEN spatial_grid_add_object(g, os, gameObject)
            ELSE
            LET wc == spatial_grid_world_to_cell(g, os[gameObject].x, os[gameObject].y)
            IN  IF ~wc.ok THEN spatial_grid_remove_object(g, os, gameObject)
                ELSE IF wc.cellX = g.entryMem[entry].cellX
                        /\ wc.cellY = g.entryMem[entry].cellY
                THEN [grid |-> g, ret |-> TRUE]
                ELSE [grid |-> [g EXCEPT !.entryMem[entry].cellX = wc.cellX,
                                         !.entryMem[entry].cellY = wc.cellY],
                      ret |-> TRUE]

\* update that, on a move to another cell, wants a free entry in the pool
\* before it takes the old entry out
spatial_grid_update_object_needs_free_slot(g, os, gameObject) ==
    IF gameObject = NULL THEN [grid |-> g, ret |-> FALSE]
    ELSE IF game_object_is_static(os, gameObject) THEN [grid |-> g, ret |-> TRUE]
    ELSE
    LET objectId == game_object_get_id(os, gameObject)
    IN  IF objectId >= g.maxObjects THEN [grid |-> g, ret |-> FALSE]
        ELSE
        LET entry == g.objectLookup[objectId]
        IN  IF entry = NULL THEN spatial_grid_add_object(g, os, gameObject)
            ELSE
            LET wc == spatial_grid_world_to_cell(g, os[gameObject].x, os[gameObject].y)
            IN  IF ~wc.ok THEN spatial_grid_remove_object(g, os, gameObject)
                ELSE IF wc.cellX = g.entryMem[entry].cellX
                        /\ wc.cellY = g.entryMem[entry].cellY
                THEN [grid |-> g, ret |-> TRUE]
                ELSE IF object_pool_get_free_count(g.entryPool) = 0
                THEN [grid |-> g, ret |-> FALSE]
                ELSE spatial_grid_add_object(
                         spatial_grid_remove_object(g, os, gameObject).grid,
                         os, gameObject)

\* spatial_grid_update_object: [grid |-> the grid afterwards, ret |-> returned bool]
spatial_grid_update_object(g, os, gameObject) ==
    IF gameObject = NULL THEN [grid |-> g, ret |-> FALSE]
    ELSE IF game_object_is_static(os, gameObject) THEN [grid |-> g, ret |-> TRUE]
    ELSE
    LET objectId == game_object_get_id(os, gameObject)
    IN  IF objectId >= g.maxObjects THEN [grid |-> g, ret |-> FALSE]
        ELSE
        LET entry == g.objectLookup[objectId]
        IN  IF entry = NULL THEN spatial_grid_add_object(g, os, gameObject)
            ELSE
            LET wc == spatial_grid_world_to_cell(g, os[gameObject].x, os[gameObject].y)
            IN  IF ~wc.ok THEN spatial_grid_remove_object(g, os, gameObject)
                ELSE IF wc.cellX = g.entryMem[entry].cellX
                        /\ wc.cellY = g.entryMem[entry].cellY
                THEN [grid |-> g, ret |-> TRUE]
                ELSE spatial_grid_add_object(
                         spatial_grid_remove_object(g, os, gameObject).grid,
                         os, gameObject)

\* spatial_grid_mark_static: its body casts the three arguments to void;
\* [grid |-> the grid afterwards, objs |-> the game objects afterwards]
spatial_grid_mark_static(g, os, gameObject, isStatic) ==
    [grid |-> g, objs |-> os]

\* the entries linked in a list, from its head on, in list order
RECURSIVE ListFrom(_, _, _)
ListFrom(mem, entry, fuel) ==
    IF entry = NULL \/ fuel = 0 THEN <<>>
    ELSE <<entry>> \o ListFrom(mem, mem[entry].next, fuel - 1)

\* the entries linked in the list of a cell
CellList(g, cell) ==
    ListFrom(g.entryMem, g.cells[cell].objects, g.entryPool.capacity + 1)

\* spatial_query_create: the query after a successful creation; the results
\* array comes from malloc and is not initialised
spatial_query_create(maxResults) ==
    [ results       |-> [i \in 0..(maxResults - 1) |-> Unwritten],
      resultCount   |-> 0,
      maxResults    |-> maxResults,
      queryX        |-> 0,
      queryY        |-> 0,
      queryRadius   |-> 0,
      includeStatic |-> TRUE ]

\* the entries spatial_grid_query_circle visits in the cells cellX..maxCellX
\* of row cellY, in the order of the scan; a cell whose objectCount is 0 is
\* skipped
RECURSIVE ScanRow(_, _, _, _)
ScanRow(g, cellY, cellX, maxCellX) ==
    IF cellX > maxCellX THEN <<>>
    ELSE LET cell == spatial_grid_get_cell(g, cellX, cellY)
             here == IF cell = NoCell \/ g.cells[cell].objectCount = 0
                     THEN <<>> ELSE CellList(g, cell)
         IN  here \o ScanRow(g, cellY, cellX + 1, maxCellX)

\* the same for the rows cellY..maxCellY
RECURSIVE ScanRows(_, _, _, _, _)
ScanRows(g, cellY, maxCellY, minCellX, maxCellX) ==
    IF cellY > maxCellY THEN <<>>
    ELSE ScanRow(g, cellY, minCellX, maxCellX)
         \o ScanRows(g, cellY + 1, maxCellY, minCellX, maxCellX)

\* entry test that takes a squared distance equal to the squared radius for
\* outside the circle
EntryMatches_strict(g, os, q, entry, centerX, centerY, radius) ==
    LET obj == g.entryMem[entry].gameObject
        dx  == os[obj].x - centerX
        dy  == os[obj].y - centerY
    IN  /\ game_object_is_active(os, obj)
        /\ ~(~q.includeStatic /\ g.entryMem[entry].staticObject)
        /\ dx * dx + dy * dy < radius * radius

\* the body of the scan for one entry: TRUE when its game object is appended
EntryMatches(g, os, q, entry, centerX, centerY, radius) ==
    LET obj == g.entryMem[entry].gameObject
        dx  == os[obj].x - centerX
        dy  == os[obj].y - centerY
    IN  /\ game_object_is_active(os, obj)
        /\ ~(~q.includeStatic /\ g.entryMem[entry].staticObject)
        /\ dx * dx + dy * dy <= radius * radius

\* scan that keeps storing matches when the buffer is full
RECURSIVE ScanEntries_unbounded(_, _, _, _, _, _, _)
ScanEntries_unbounded(g, os, q, entries, centerX, centerY, radius) ==
    IF entries = <<>> THEN q
    ELSE LET entry == Head(entries)
             q2 == IF EntryMatches(g, os, q, entry, centerX, centerY, radius)
                   THEN [q EXCEPT !.results =
                                      [i \in (DOMAIN q.results) \cup {q.resultCount} |->
                                          IF i = q.resultCount
                                          THEN g.entryMem[entry].gameObject
                                          ELSE q.results[i]],
                                  !.resultCount = U32(q.resultCount + 1)]
                   ELSE q
         IN  ScanEntries_unbounded(g, os, q2, Tail(entries), centerX, centerY, radius)

\* scan that takes the visited entries from the last one to the first
RECURSIVE ScanEntries_last_first(_, _, _, _, _, _, _)
ScanEntries_last_first(g, os, q, entries, centerX, centerY, radius) ==
    IF entries = <<>> \/ ~(q.resultCount < q.maxResults) THEN q
    ELSE LET entry == entries[Len(entries)]
             q2 == IF EntryMatches(g, os, q, entry, centerX, centerY, radius)
                   THEN [q EXCEPT !.results[q.resultCount] = g.entryMem[entry].gameObject,
                                  !.resultCount = U32(q.resultCount + 1)]
                   ELSE q
         IN  ScanEntries_last_first(g, os, q2, SubSeq(entries, 1, Len(entries) - 1),
                                    centerX, centerY, radius)

\* the scan over the visited entries: a match is stored at
\* results[resultCount] as long as resultCount < maxResults
RECURSIVE ScanEntries(_, _, _, _, _, _, _)
ScanEntries(g, os, q, entries, centerX, centerY, radius) ==
    IF entries = <<>> \/ ~(q.resultCount < q.maxResults) THEN q
    ELSE LET entry == Head(entries)
             q2 == IF EntryMatches(g, os, q, entry, centerX, centerY, radius)
                   THEN [q EXCEPT !.results[q.resultCount] = g.entryMem[entry].gameObject,
                                  !.resultCount = U32(q.resultCount + 1)]
                   ELSE q
         IN  ScanEntries(g, os, q2, Tail(entries), centerX, centerY, radius)

\* spatial_grid_query_circle:
\* [grid |-> the grid afterwards, query |-> the query afterwards, ret |-> count]
spatial_grid_query_circle(g, os, centerX, centerY, radius, q) ==
    IF radius <= 0 THEN [grid |-> g, query |-> q, ret |-> 0]
    ELSE
    LET q0 == [q EXCEPT !.resultCount = 0, !.queryX = centerX,
                        !.queryY = centerY, !.queryRadius = radius]
        lo == spatial_grid_world_to_cell(g, centerX - radius, centerY - radius)
        hi == spatial_grid_world_to_cell(g, centerX + radius, centerY + radius)
    IN  IF ~lo.ok \/ ~hi.ok THEN [grid |-> g, query |-> q0, ret |-> 0]
        ELSE
        LET q1 == ScanEntries(g, os, q0,
                              ScanRows(g, lo.cellY, hi.cellY, lo.cellX, hi.cellX),
                              centerX, centerY, radius)
        IN  [grid  |-> [g EXCEPT !.queriesPerFrame = U32(g.queriesPerFrame + 1)],
             query |-> q1,
             ret   |-> q1.resultCount]

\* walk that gives the head of a cell's list back to the pool and stops
DrainList_head_only(p, mem, entry, fuel) ==
    IF entry = NULL THEN [pool |-> p, frees |-> <<>>, done |-> TRUE]
    ELSE LET r == object_pool_free(p, entry)
         IN  [pool |-> r.pool, frees |-> <<r.ret>>, done |-> TRUE]

\* the while loop of spatial_grid_destroy over one cell's list, from entry
\* on: [pool |-> the entry pool afterwards, frees |-> what the calls of
\* object_pool_free returned, in order, done |-> the walk reached NULL].
\* The loop has no bound of its own; fuel stops the walk of a list that
\* holds more links than the pool has slots, which is a list with a cycle.
RECURSIVE DrainList(_, _, _, _)
DrainList(p, mem, entry, fuel) ==
    IF entry = NULL THEN [pool |-> p, frees |-> <<>>, done |-> TRUE]
    ELSE IF fuel = 0 THEN [pool |-> p, frees |-> <<>>, done |-> FALSE]
    ELSE LET next == mem[entry].next
             r    == object_pool_free(p, entry)
             rest == DrainList(r.pool, mem, next, fuel - 1)
         IN  [pool  |-> rest.pool,
              frees |-> <<r.ret>> \o rest.frees,
              done  |-> rest.done]

\* the for loop of spatial_grid_destroy over the cells i, i + 1, ...
RECURSIVE DrainCells(_, _, _)
DrainCells(g, p, i) ==
    IF ~(i < U32(g.gridWidth * g.gridHeight))
    THEN [pool |-> p, frees |-> <<>>, done |-> TRUE]
    ELSE LET d    == DrainList(p, g.entryMem, g.cells[i].objects, g.entryPool.capacity + 1)
             rest == IF d.done THEN DrainCells(g, d.pool, i + 1)
                     ELSE [pool |-> d.pool, frees |-> <<>>, done |-> FALSE]
         IN  [pool  |-> rest.pool,
              frees |-> d.frees \o rest.frees,
              done  |-> rest.done]

\* spatial_grid_destroy up to the call of object_pool_destroy:
\* [grid |-> the grid with its entry pool as it is released, frees |-> what
\* the calls of object_pool_free returned, done |-> the loops ended]
spatial_grid_destroy(g) ==
    LET d == DrainCells(g, g.entryPool, 0)
    IN  [grid  |-> [g EXCEPT !.entryPool = d.pool],
         frees |-> d.frees,
         done  |-> d.done]

(***************************************************************************)
(* Scene and game-object hierarchy                                         *)
(*                                                                         *)
(* Here a GameObject pointer is the address of the object's slot in the    *)
(* block of the scene's gameObjectPool, and mem maps each slot address to  *)
(* the fields of the GameObject written there; they stay as they are when  *)
(* the slot goes back to the pool. Of a GameObject the id, the flags and   *)
(* the three hierarchy pointers are kept; of a Scene the gameObjects and   *)
(* rootObjects arrays with their counts, the pool, transformCount and      *)
(* activeObjectCount. Components are not kept: transform_component_create  *)
(* succeeds and every game object has its transform.                       *)
(***************************************************************************)

\* sizeof(GameObject)
GameObjectSize == 96

\* address of the block of the scene's gameObjectPool
ScenePoolMemory == 32768

\* scene_create: the scene after a successful creation
scene_create(maxGameObjects) ==
    LET rootObjectCapacity == IF maxGameObjects \div 4 < 10 THEN 10
                              ELSE maxGameObjects \div 4
    IN  [ gameObjects        |-> [i \in 0..(maxGameObjects - 1) |-> NULL],
          gameObjectCount    |-> 0,
          gameObjectCapacity |-> maxGameObjects,
          gameObjectPool     |-> object_pool_init(ScenePoolMemory, GameObjectSize,
                                                  maxGameObjects),
          rootObjects        |-> [i \in 0..(rootObjectCapacity - 1) |-> NULL],
          rootObjectCount    |-> 0,
          rootObjectCapacity |-> rootObjectCapacity,
          transformCount     |-> 0,
          activeObjectCount  |-> 0 ]

\* the cycle check of game_object_set_parent, the walk current,
\* current->parent, ...: "cycle" when it meets child, "end" when it reaches
\* NULL; the loop has no bound of its own, "endless" is a walk longer than
\* there are game objects
RECURSIVE ParentWalk(_, _, _, _)
ParentWalk(mem, current, child, fuel) ==
    IF current = NULL THEN "end"
    ELSE IF current = child THEN "cycle"
    ELSE IF fuel = 0 THEN "endless"
    ELSE ParentWalk(mem, mem[current].parent, child, fuel - 1)

\* the search of game_object_set_parent for the sibling in front of child,
\* from sibling on: NULL when the list ends before child is met
RECURSIVE FindSibling(_, _, _, _)
FindSibling(mem, sibling, child, fuel) ==
    IF sibling = NULL \/ fuel = 0 THEN NULL
    ELSE IF mem[sibling].nextSibling = child THEN sibling
    ELSE FindSibling(mem, mem[sibling].nextSibling, child, fuel - 1)

\* set_parent whose cycle check compares child with the new parent only
game_object_set_parent_checks_self_only(mem, child, parent) ==
    IF child = NULL THEN [gobj |-> mem, ret |-> "GAMEOBJECT_ERROR_NULL_POINTER"]
    ELSE IF parent = child THEN [gobj |-> mem, ret |-> "GAMEOBJECT_ERROR_HIERARCHY_CYCLE"]
    ELSE
    LET oldParent == mem[child].parent
        unlinked ==
            IF oldParent = NULL THEN mem
            ELSE IF mem[oldParent].firstChild = child
            THEN [mem EXCEPT ![oldParent].firstChild = mem[child].nextSibling]
            ELSE LET sibling == FindSibling(mem, mem[oldParent].firstChild, child,
                                            Cardinality(DOMAIN mem))
                 IN  IF sibling # NULL
                     THEN [mem EXCEPT ![sibling].nextSibling = mem[child].nextSibling]
                     ELSE mem
        orphan == [unlinked EXCEPT ![child].parent = parent,
                                   ![child].nextSibling = NULL]
    IN  [gobj |-> IF parent = NULL THEN orphan
                  ELSE [orphan EXCEPT ![child].nextSibling = orphan[parent].firstChild,
                                      ![parent].firstChild = child],
         ret  |-> "GAMEOBJECT_OK"]

\* game_object_set_parent:
\* [gobj |-> the game objects afterwards, ret |-> returned GameObjectResult]
game_object_set_parent(mem, child, parent) ==
    IF child = NULL THEN [gobj |-> mem, ret |-> "GAMEOBJECT_ERROR_NULL_POINTER"]
    ELSE
    LET walk == ParentWalk(mem, parent, child, Cardinality(DOMAIN mem))
    IN  IF walk = "cycle" THEN [gobj |-> mem, ret |-> "GAMEOBJECT_ERROR_HIERARCHY_CYCLE"]
        ELSE IF walk = "endless" THEN [gobj |-> mem, ret |-> "no return"]
        ELSE
        LET oldParent == mem[child].parent
            unlinked ==
                IF oldParent = NULL THEN mem
                ELSE IF mem[oldParent].firstChild = child
                THEN [mem EXCEPT ![oldParent].firstChild = mem[child].nextSibling]
                ELSE LET sibling == FindSibling(mem, mem[oldParent].firstChild, child,
                                                Cardinality(DOMAIN mem))
                     IN  IF sibling # NULL
                         THEN [mem EXCEPT ![sibling].nextSibling = mem[child].nextSibling]
                         ELSE mem
            orphan == [unlinked EXCEPT ![child].parent = parent,
                                       ![child].nextSibling = NULL]
        IN  [gobj |-> IF parent = NULL THEN orphan
                      ELSE [orphan EXCEPT ![child].nextSibling = orphan[parent].firstChild,
                                          ![parent].firstChild = child],
             ret  |-> "GAMEOBJECT_OK"]

\* game_object_set_active
game_object_set_active(mem, gameObject, active) ==
    IF gameObject = NULL THEN mem ELSE [mem EXCEPT ![gameObject].active = active]

\* scene_add_game_object: [scene |-> the scene afterwards, ret |-> returned SceneResult]
scene_add_game_object(s, mem, gameObject) ==
    IF gameObject = NULL THEN [scene |-> s, ret |-> "SCENE_ERROR_NULL_POINTER"]
    ELSE IF s.gameObjectCount >= s.gameObjectCapacity
    THEN [scene |-> s, ret |-> "SCENE_ERROR_POOL_FULL"]
    ELSE
    LET listed == [s EXCEPT !.gameObjects[s.gameObjectCount] = gameObject,
                            !.gameObjectCount = U32(@ + 1)]
        rooted == IF mem[gameObject].parent = NULL
                     /\ ~(listed.rootObjectCount >= listed.rootObjectCapacity)
                  THEN [listed EXCEPT !.rootObjects[listed.rootObjectCount] = gameObject,
                                      !.rootObjectCount = U32(@ + 1)]
                  ELSE listed
    IN  [scene |-> [rooted EXCEPT
                       !.transformCount = U32(@ + 1),
                       !.activeObjectCount =
                           IF game_object_is_active(mem, gameObject) THEN U32(@ + 1) ELSE @],
         ret   |-> "SCENE_OK"]

\* the array after the shift of scene_remove_game_object: the slots i ..
\* count - 2 take the contents of their upper neighbours, the others keep theirs
ShiftDown(array, i, count) ==
    [j \in DOMAIN array |-> IF j >= i /\ j < count - 1 THEN array[j + 1] ELSE array[j]]

\* the first of the slots 0 .. count - 1 of array that holds gameObject, -1
\* when none does
FirstSlot(array, count, gameObject) ==
    LET hits == {i \in 0..(count - 1) : array[i] = gameObject}
    IN  IF hits = {} THEN -1 ELSE CHOOSE i \in hits : \A k \in hits : i <= k

\* scene_remove_game_object: [scene |-> the scene afterwards, ret |-> returned SceneResult]
scene_remove_game_object(s, mem, gameObject) ==
    IF gameObject = NULL THEN [scene |-> s, ret |-> "SCENE_ERROR_NULL_POINTER"]
    ELSE
    LET i == FirstSlot(s.gameObjects, s.gameObjectCount, gameObject)
    IN  IF i = -1 THEN [scene |-> s, ret |-> "SCENE_ERROR_OBJECT_NOT_FOUND"]
        ELSE
        LET r == FirstSlot(s.rootObjects, s.rootObjectCount, gameObject)
            count == U32(s.gameObjectCount - 1)
        IN  [scene |-> [s EXCEPT
                           !.gameObjects = ShiftDown(@, i, s.gameObjectCount),
                           !.gameObjectCount = count,
                           !.rootObjects = IF r = -1 THEN @
                                           ELSE ShiftDown(@, r, s.rootObjectCount),
                           !.rootObjectCount = IF r = -1 THEN @ ELSE U32(@ - 1),
                           !.transformCount = count,
                           !.activeObjectCount =
                               IF game_object_is_active(mem, gameObject)
                               THEN U32(@ - 1) ELSE @],
             ret   |-> "SCENE_OK"]

\* game_object_create: [scene |-> the scene afterwards, gobj |-> the game
\* objects afterwards, nextId |-> g_nextGameObjectId afterwards,
\* ret |-> returned pointer]; what scene_add_game_object returns is not looked at
game_object_create(s, mem, nextId) ==
    LET a == object_pool_alloc(s.gameObjectPool)
        taken == [s EXCEPT !.gameObjectPool = a.pool]
    IN  IF a.ret = NULL
        THEN [scene |-> taken, gobj |-> mem, nextId |-> nextId, ret |-> NULL]
        ELSE
        LET written == [mem EXCEPT ![a.ret] =
                           [id |-> nextId, active |-> TRUE, staticObject |-> FALSE,
                            parent |-> NULL, firstChild |-> NULL, nextSibling |-> NULL]]
        IN  [scene  |-> scene_add_game_object(taken, written, a.ret).scene,
             gobj   |-> written,
             nextId |-> U32(nextId + 1),
             ret    |-> a.ret]

\* game_object_destroy on w = [scene, gobj, calls]: the scene and the game
\* objects afterwards, with the game object appended to calls, the arguments
\* of the calls of game_object_destroy in the order they are made. fuel
\* bounds the depth of the recursion and the length of a child list.
RECURSIVE game_object_destroy(_, _, _)
RECURSIVE DestroyChildren(_, _, _)
DestroyChildren(w, child, fuel) ==
    IF child = NULL \/ fuel = 0 THEN w
    ELSE LET nextChild == w.gobj[child].nextSibling
         IN  DestroyChildren(game_object_destroy(w, child, fuel - 1), nextChild, fuel - 1)

game_object_destroy(w, gameObject, fuel) ==
    IF gameObject = NULL THEN w
    ELSE
    LET called   == [w EXCEPT !.calls = Append(@, gameObject)]
        childless == DestroyChildren(called, called.gobj[gameObject].firstChild, fuel)
        detached == IF childless.gobj[gameObject].parent # NULL
                    THEN game_object_set_parent(childless.gobj, gameObject, NULL).gobj
                    ELSE childless.gobj
        removed  == scene_remove_game_object(childless.scene, detached, gameObject).scene
    IN  [scene |-> [removed EXCEPT
                       !.gameObjectPool = object_pool_free(@, gameObject).pool],
         gobj  |-> detached,
         calls |-> childless.calls]

\* the for loop of scene_destroy over the slots i, i - 1, ..., 0
RECURSIVE DestroyObjects(_, _)
DestroyObjects(w, i) ==
    IF i < 0 THEN w
    ELSE DestroyObjects(IF w.scene.gameObjects[i] # NULL
                        THEN game_object_destroy(w, w.scene.gameObjects[i],
                                                 2 * w.scene.gameObjectCapacity)
                        ELSE w,
                        i - 1)

\* scene_destroy up to the call of object_pool_destroy: [scene, gobj |-> the
\* scene and the game objects as they are when the memory is released,
\* calls |-> the arguments of the calls of game_object_destroy, in order]
scene_destroy(s, mem) ==
    DestroyObjects([scene |-> s, gobj |-> mem, calls |-> <<>>], s.gameObjectCount - 1)

(***************************************************************************)
(* State                                                                   *)
(***************************************************************************)

VARIABLES
    pool,     \* the stand-alone ObjectPool
    held,     \* caller's pointers: slot address -> times handed out and not yet freed
    pcall,    \* the last pool call: operation, argument, returned value
    hist,     \* history of the pool calls since object_pool_init: successful allocs and
              \* frees, whether an alloc has failed, the largest used count reached,
              \* the slots released and not handed out again, last released first
    grid,     \* the SpatialGrid, with the contents of its entry pool's block
    objs,     \* the GameObjects: id, position of the transform, active and static flags
    gcall,    \* the last call on the grid or a game object: operation, game object, returned value
    query,    \* the caller's SpatialQuery
    scene,    \* the Scene
    gobj,     \* the block of the scene's gameObjectPool: slot address -> GameObject
    scall,    \* the last call on the scene or one of its game objects: operation,
              \* game object, other argument, returned value, the arguments of
              \* the calls of game_object_destroy made during the call, in order,
              \* and the number of calls of scene_add_game_object made by the
              \* caller so far
    g_nextGameObjectId    \* the static counter of game_object.c

poolVars == <<pool, held, pcall, hist>>

gridVars == <<grid, objs, gcall, query>>

sceneVars == <<scene, gobj, scall, g_nextGameObjectId>>

vars == <<pool, held, pcall, hist, grid, objs, gcall, query,
          scene, gobj, scall, g_nextGameObjectId>>

\* the addresses of the slots of pool p
SlotAddrs(p) == {p.memory + i * p.elementSize : i \in 0..(p.capacity - 1)}

\* the block of the other pool of test_object_ownership
OtherPoolMemory(p) == CHOOSE b \in PoolBases : b # p.memory

\* addresses that are not slots of pool p: below the block, one past its
\* end, inside a slot (16-aligned, not a multiple of the element size), and
\* a slot of the other pool
ForeignAddrs(p) ==
    { p.memory - p.elementSize,
      p.memory + p.capacity * p.elementSize,
      p.memory + MEMORY_ALIGNMENT,
      p.memory + (p.capacity - 1) * p.elementSize + MEMORY_ALIGNMENT,
      OtherPoolMemory(p),
      OtherPoolMemory(p) + p.elementSize }

\* the pointers a caller passes to object_pool_free
FreeArgs(p) == SlotAddrs(p) \cup ForeignAddrs(p) \cup {NULL}

\* a sequence of pointers without the pointer x
Without(seq, x) ==
    LET Other(a) == a # x
    IN  SelectSeq(seq, Other)

\* the larger of two numbers
MaxOf(a, b) == IF a > b THEN a ELSE b

PoolInit ==
    /\ \E b \in PoolBases : pool = object_pool_init(b, TestObjectSize, PoolCapacity)
    /\ held = [a \in SlotAddrs(pool) |-> 0]
    /\ pcall = [op |-> "init", arg |-> NULL, ret |-> "POOL_OK"]
    /\ hist = [allocOk |-> 0, freeOk |-> 0, allocFailed |-> FALSE, maxUsed |-> 0,
               released |-> <<>>]

\* a call of object_pool_alloc(&pool)
Alloc ==
    /\ hist.allocOk < MaxAllocs
    /\ LET r == object_pool_alloc(pool)
       IN  /\ pool' = r.pool
           /\ pcall' = [op |-> "alloc", arg |-> NULL, ret |-> r.ret]
           /\ held' = IF r.ret \in DOMAIN held
                      THEN [held EXCEPT ![r.ret] = @ + 1] ELSE held
           /\ hist' = IF r.ret # NULL
                      THEN [hist EXCEPT !.allocOk = @ + 1,
                                        !.maxUsed = MaxOf(@, object_pool_get_used_count(r.pool)),
                                        !.released = Without(@, r.ret)]
                      ELSE [hist EXCEPT !.allocFailed = TRUE,
                                        !.maxUsed = MaxOf(@, object_pool_get_used_count(r.pool))]
           /\ UNCHANGED gridVars
           /\ UNCHANGED sceneVars

\* a call of object_pool_free(&pool, object)
Free(object) ==
    LET r == object_pool_free(pool, object)
    IN  /\ pool' = r.pool
        /\ pcall' = [op |-> "free", arg |-> object, ret |-> r.ret]
        /\ held' = IF r.ret = "POOL_OK" /\ object \in DOMAIN held /\ held[object] > 0
                   THEN [held EXCEPT ![object] = @ - 1] ELSE held
        /\ hist' = IF r.ret = "POOL_OK"
                   THEN [hist EXCEPT !.freeOk = @ + 1,
                                     !.maxUsed = MaxOf(@, object_pool_get_used_count(r.pool)),
                                     !.released = <<object>> \o @]
                   ELSE [hist EXCEPT !.maxUsed = MaxOf(@, object_pool_get_used_count(r.pool))]
        /\ UNCHANGED gridVars
        /\ UNCHANGED sceneVars

PoolNext ==
    \/ Alloc
    \/ \E object \in FreeArgs(pool) : Free(object)

\* the positions game_object_set_position is called with: (0,0), where a
\* new game object stands, in cell (0,0), (100,100) in cell (1,1), and
\* (300,300) outside the grid
Positions == { <<0, 0>>, <<100, 100>>, <<300, 300>> }

\* ids given by game_object_create (g_nextGameObjectId++) to the game
\* objects of the model; the last one was created late enough to have the
\* first id outside the lookup table
ObjectIds == <<1, 2, GridMaxObjects>>

Objects == 1..Len(ObjectIds)

GridInit ==
    /\ grid = spatial_grid_create(GridCellSize, GridWidth, GridHeight, 0, 0, GridMaxObjects)
    /\ objs = [o \in Objects |-> [id |-> ObjectIds[o], x |-> 0, y |-> 0,
                                  active |-> TRUE, staticObject |-> FALSE]]
    /\ gcall = [op |-> "create", obj |-> NULL, ret |-> TRUE]
    /\ query = spatial_query_create(QueryMaxResults)

\* game_object_set_position(gameObject, x, y)
SetPosition(gameObject, pos) ==
    /\ <<objs[gameObject].x, objs[gameObject].y>> # pos
    /\ objs' = [objs EXCEPT ![gameObject].x = pos[1], ![gameObject].y = pos[2]]
    /\ gcall' = [op |-> "set_position", obj |-> gameObject, ret |-> TRUE]
    /\ UNCHANGED <<grid, query>>
    /\ UNCHANGED poolVars
    /\ UNCHANGED sceneVars

\* game_object_set_static(gameObject, staticObject)
SetStatic(gameObject, staticObject) ==
    /\ objs[gameObject].staticObject # staticObject
    /\ objs' = [objs EXCEPT ![gameObject].staticObject = staticObject]
    /\ gcall' = [op |-> "set_static", obj |-> gameObject, ret |-> TRUE]
    /\ UNCHANGED <<grid, query>>
    /\ UNCHANGED poolVars
    /\ UNCHANGED sceneVars

\* game_object_set_active(gameObject, active)
SetActive(gameObject, active) ==
    /\ objs[gameObject].active # active
    /\ objs' = [objs EXCEPT ![gameObject].active = active]
    /\ gcall' = [op |-> "set_active", obj |-> gameObject, ret |-> TRUE]
    /\ UNCHANGED <<grid, query>>
    /\ UNCHANGED poolVars
    /\ UNCHANGED sceneVars

\* a call of spatial_grid_add_object(grid, gameObject)
AddObject(gameObject) ==
    /\ LET r == spatial_grid_add_object(grid, objs, gameObject)
       IN  /\ r.grid.entryPool.totalAllocations <= MaxGridAllocs
           /\ grid' = r.grid
           /\ gcall' = [op |-> "add", obj |-> gameObject, ret |-> r.ret]
    /\ UNCHANGED <<objs, query>>
    /\ UNCHANGED poolVars
    /\ UNCHANGED sceneVars

\* a call of spatial_grid_remove_object(grid, gameObject); gcall keeps
\* whether the call repeats a successful remove of the same game object
RemoveObject(gameObject) ==
    /\ LET r == spatial_grid_remove_object(grid, objs, gameObject)
       IN  /\ grid' = r.grid
           /\ gcall' = [op |-> "remove", obj |-> gameObject, ret |-> r.ret,
                        repeated |-> /\ gcall.op = "remove"
                                     /\ gcall.obj = gameObject
                                     /\ gcall.ret]
    /\ UNCHANGED <<objs, query>>
    /\ UNCHANGED poolVars
    /\ UNCHANGED sceneVars

\* the cell recorded in the entry the lookup table holds for a game object,
\* NoCell when it holds none
TrackedCell(g, os, gameObject) ==
    IF os[gameObject].id >= g.maxObjects THEN NoCell
    ELSE IF g.objectLookup[os[gameObject].id] = NULL THEN NoCell
    ELSE spatial_grid_get_cell(g, g.entryMem[g.objectLookup[os[gameObject].id]].cellX,
                                  g.entryMem[g.objectLookup[os[gameObject].id]].cellY)

\* a call of spatial_grid_update_object(grid, gameObject); gcall keeps the
\* cell the game object was tracked in before the call, and whether the
\* call follows a game_object_set_position of the game object
UpdateObject(gameObject) ==
    /\ LET r == spatial_grid_update_object(grid, objs, gameObject)
       IN  /\ r.grid.entryPool.totalAllocations <= MaxGridAllocs
           /\ grid' = r.grid
           /\ gcall' = [op |-> "update", obj |-> gameObject, ret |-> r.ret,
                        cell |-> TrackedCell(grid, objs, gameObject),
                        moved |-> /\ gcall.op = "set_position"
                                  /\ gcall.obj = gameObject]
    /\ UNCHANGED <<objs, query>>
    /\ UNCHANGED poolVars
    /\ UNCHANGED sceneVars

\* query->includeStatic = includeStatic, then a call of
\* spatial_grid_query_circle(grid, centerX, centerY, radius, query); gcall
\* keeps the arguments and the call the query, or the queries, follow
QueryCircle(centerX, centerY, radius, includeStatic) ==
    /\ LET r == spatial_grid_query_circle(grid, objs, centerX, centerY, radius,
                                           [query EXCEPT !.includeStatic = includeStatic])
       IN  /\ r.grid.queriesPerFrame <= MaxBufferQueries
           /\ grid' = r.grid
           /\ query' = r.query
           /\ gcall' = [op |-> "query", obj |-> NULL, ret |-> r.ret,
                        centerX |-> centerX, centerY |-> centerY, radius |-> radius,
                        prev |-> IF gcall.op = "query" THEN gcall.prev ELSE gcall]
    /\ UNCHANGED objs
    /\ UNCHANGED poolVars
    /\ UNCHANGED sceneVars

\* a call of spatial_grid_mark_static(grid, gameObject, isStatic)
MarkStatic(gameObject, isStatic) ==
    /\ LET r == spatial_grid_mark_static(grid, objs, gameObject, isStatic)
       IN  /\ grid' = r.grid
           /\ objs' = r.objs
           /\ gcall' = [op |-> "mark_static", obj |-> gameObject, ret |-> TRUE,
                        isStatic |-> isStatic]
    /\ UNCHANGED query
    /\ UNCHANGED poolVars
    /\ UNCHANGED sceneVars

\* a call of spatial_grid_destroy(grid), the last call on a grid; the state
\* afterwards keeps the grid as it was when its memory was released
Destroy ==
    /\ gcall.op # "destroy"
    /\ LET r == spatial_grid_destroy(grid)
       IN  /\ grid' = r.grid
           /\ gcall' = [op |-> "destroy", obj |-> NULL, ret |-> r.done,
                        frees |-> r.frees]
    /\ UNCHANGED <<objs, query>>
    /\ UNCHANGED poolVars
    /\ UNCHANGED sceneVars

\* the game object of the full-pool scenarios that is flagged static or not:
\* the one with a slot in the lookup table
FullStaticObjects == {1}

GridNext ==
    \/ \E o \in Objects, pos \in Positions : SetPosition(o, pos)
    \/ \E o \in Objects : AddObject(o)
    \/ \E o \in Objects : RemoveObject(o)
    \/ \E o \in Objects : UpdateObject(o)

\* scene_create(name, SceneMaxGameObjects) has returned the scene; no game
\* object has been created, the block of the pool is as aligned_alloc left it
SceneInit ==
    /\ scene = scene_create(SceneMaxGameObjects)
    /\ gobj = [a \in SlotAddrs(scene.gameObjectPool) |-> Unwritten]
    /\ scall = [op |-> "scene_create", obj |-> NULL, arg |-> NULL, ret |-> NULL,
                calls |-> <<>>, adds |-> 0]
    /\ g_nextGameObjectId = 1

Init == PoolInit /\ GridInit /\ SceneInit

PoolSpec == Init /\ [][PoolNext]_vars

\* element sizes passed to object_pool_init: sizes around the multiples of
\* the alignment, sizeof(TestObject), and the largest sizes a word holds
ElementSizes == {1, 15, 16, 17, TestObjectSize, 31, 32, 33,
                 WordModulus - 32, WordModulus - 17, WordModulus - 16,
                 WordModulus - 15, WordModulus - 1}

\* object_pool_init(&pool, elementSize, PoolCapacity, name) has returned
\* POOL_OK for one of the element sizes; hist keeps the size requested
AlignInit ==
    /\ \E b \in PoolBases, elementSize \in ElementSizes :
          /\ pool = object_pool_init(b, elementSize, PoolCapacity)
          /\ hist = [allocOk |-> 0, freeOk |-> 0, allocFailed |-> FALSE, maxUsed |-> 0,
                     released |-> <<>>, requested |-> elementSize]
    /\ held = [a \in SlotAddrs(pool) |-> 0]
    /\ pcall = [op |-> "init", arg |-> NULL, ret |-> "POOL_OK"]
    /\ GridInit
    /\ SceneInit

AlignSpec == AlignInit /\ [][PoolNext]_vars

\* the grid on its own: the stand-alone pool stays as initialised, its block
\* at the first of the addresses
GridOnlyInit == Init /\ pool.memory = 4096

GridSpec == GridOnlyInit /\ [][GridNext]_vars

\* a grid created with a smaller maxObjects: its entry pool is full after two
\* adds, and only the id 1 has a slot in its lookup table
FullInit ==
    /\ PoolInit
    /\ SceneInit
    /\ pool.memory = 4096
    /\ grid = spatial_grid_create(GridCellSize, GridWidth, GridHeight, 0, 0, FullMaxObjects)
    /\ objs = [o \in Objects |-> [id |-> ObjectIds[o], x |-> 0, y |-> 0,
                                  active |-> TRUE, staticObject |-> FALSE]]
    /\ gcall = [op |-> "create", obj |-> NULL, ret |-> TRUE]
    /\ query = spatial_query_create(QueryMaxResults)

FullNext ==
    \/ \E o \in Objects, pos \in Positions : SetPosition(o, pos)
    \/ \E o \in FullStaticObjects, b \in BOOLEAN : SetStatic(o, b)
    \/ \E o \in Objects : AddObject(o)
    \/ \E o \in Objects : RemoveObject(o)
    \/ \E o \in Objects : UpdateObject(o)

FullSpec == FullInit /\ [][FullNext]_vars

\* the game objects, positions, centres and radii of the query scenarios:
\* two game objects with ids inside the lookup table, the first one flagged
\* static or not, the second one active or not
QueryObjects == {1, 2}

StaticObjects == {1}

InactiveObjects == {2}

\* (0,0) in cell (0,0) at the edge of the grid, (100,112) in cell (1,1)
QueryPositions == { <<0, 0>>, <<100, 112>> }

\* the positions, and the corner (64,64) shared by four cells, at distance
\* 60 from (100,112)
QueryCenters == { <<0, 0>>, <<100, 112>>, <<64, 64>> }

QueryRadii == {5, 60}

QueryNext ==
    \/ \E o \in QueryObjects, pos \in QueryPositions : SetPosition(o, pos)
    \/ \E o \in StaticObjects, b \in BOOLEAN : SetStatic(o, b)
    \/ \E o \in InactiveObjects, b \in BOOLEAN : SetActive(o, b)
    \/ \E o \in QueryObjects :
           AddObject(o) /\ grid'.entryPool.totalAllocations <= MaxQueryAllocs
    \/ \E o \in QueryObjects : RemoveObject(o)
    \/ \E o \in QueryObjects :
           UpdateObject(o) /\ grid'.entryPool.totalAllocations <= MaxQueryAllocs
    \/ \E c \in QueryCenters, r \in QueryRadii, b \in BOOLEAN :
           grid.queriesPerFrame < MaxQueries /\ QueryCircle(c[1], c[2], r, b)

QuerySpec == GridOnlyInit /\ [][QueryNext]_vars

\* the result buffer over several queries: two game objects that move from
\* (0,0), where they are created, to (100,112), and a query with a buffer
\* smaller than the number of game objects
BufferObjects == QueryObjects

BufferPositions == { <<100, 112>> }

\* (64,64) with radius 60 has its bounding box inside the grid and (100,112)
\* on the circle; around (0,0) the box leaves the grid
BufferCenters == { <<64, 64>>, <<0, 0>> }

\* a radius the code accepts, and two it refuses
BufferRadii == {60, 0, -5}

BufferInit ==
    /\ PoolInit
    /\ SceneInit
    /\ pool.memory = 4096
    /\ grid = spatial_grid_create(GridCellSize, GridWidth, GridHeight, 0, 0, GridMaxObjects)
    /\ objs = [o \in Objects |-> [id |-> ObjectIds[o], x |-> 0, y |-> 0,
                                  active |-> TRUE, staticObject |-> FALSE]]
    /\ gcall = [op |-> "create", obj |-> NULL, ret |-> TRUE]
    /\ query = spatial_query_create(BufferMaxResults)

BufferNext ==
    \/ \E o \in BufferObjects, pos \in BufferPositions : SetPosition(o, pos)
    \/ \E o \in BufferObjects :
           AddObject(o) /\ grid'.entryPool.totalAllocations <= MaxQueryAllocs
    \/ \E o \in BufferObjects : RemoveObject(o)
    \/ \E o \in BufferObjects :
           UpdateObject(o) /\ grid'.entryPool.totalAllocations <= MaxQueryAllocs
    \/ \E c \in BufferCenters, r \in BufferRadii : QueryCircle(c[1], c[2], r, TRUE)

BufferSpec == BufferInit /\ [][BufferNext]_vars

\* the order of the entries of a cell: two game objects that are added, or
\* moved, to (30,30) in cell (0,0) and (100,112) in cell (1,1), and a query
\* around (100,112) that visits cell (1,1) alone or around (64,64) that
\* visits four cells and has both positions inside its circle
OrderPositions == { <<30, 30>>, <<100, 112>> }

OrderCenters == { <<100, 112>>, <<64, 64>> }

OrderRadii == {5, 60}

OrderNext ==
    \/ \E o \in QueryObjects, pos \in OrderPositions : SetPosition(o, pos)
    \/ \E o \in QueryObjects : AddObject(o)
    \/ \E o \in QueryObjects : RemoveObject(o)
    \/ \E o \in QueryObjects : UpdateObject(o)
    \/ \E c \in OrderCenters, r \in OrderRadii :
           grid.queriesPerFrame < MaxQueries /\ QueryCircle(c[1], c[2], r, TRUE)

OrderSpec == GridOnlyInit /\ [][OrderNext]_vars

\* the static flag with the grid operations: a game object with a slot in
\* the lookup table and one without
FlaggedObjects == {1, 3}

\* the positions of the grid scenarios and (110,110), in cell (1,1) like
\* (100,100)
StaticPositions == Positions \cup { <<110, 110>> }

StaticNext ==
    \/ \E o \in FlaggedObjects, pos \in StaticPositions : SetPosition(o, pos)
    \/ \E o \in FlaggedObjects, b \in BOOLEAN : SetStatic(o, b)
    \/ \E o \in FlaggedObjects : AddObject(o)
    \/ \E o \in FlaggedObjects : RemoveObject(o)
    \/ \E o \in FlaggedObjects : UpdateObject(o)

StaticSpec == GridOnlyInit /\ [][StaticNext]_vars

\* spatial_grid_mark_static with the operations it is documented to affect:
\* one game object, flagged through the game object or marked through the grid
MarkNext ==
    \/ \E o \in StaticObjects, pos \in QueryPositions : SetPosition(o, pos)
    \/ \E o \in StaticObjects, b \in BOOLEAN : SetStatic(o, b)
    \/ \E o \in StaticObjects, b \in BOOLEAN : MarkStatic(o, b)
    \/ \E o \in StaticObjects :
           AddObject(o) /\ grid'.entryPool.totalAllocations <= MaxQueryAllocs
    \/ \E o \in StaticObjects : RemoveObject(o)
    \/ \E o \in StaticObjects :
           UpdateObject(o) /\ grid'.entryPool.totalAllocations <= MaxQueryAllocs
    \/ \E c \in QueryCenters, r \in QueryRadii, b \in BOOLEAN :
           grid.queriesPerFrame < MaxQueries /\ QueryCircle(c[1], c[2], r, b)

MarkSpec == GridOnlyInit /\ [][MarkNext]_vars

\* the life of a grid up to spatial_grid_destroy, with a game object that has
\* a slot in the lookup table and one that has none
DestroyNext ==
    \/ gcall.op # "destroy" /\ \E o \in FlaggedObjects, pos \in Positions : SetPosition(o, pos)
    \/ gcall.op # "destroy" /\ \E o \in FlaggedObjects : AddObject(o)
    \/ gcall.op # "destroy" /\ \E o \in FlaggedObjects : RemoveObject(o)
    \/ gcall.op # "destroy" /\ \E o \in FlaggedObjects : UpdateObject(o)
    \/ Destroy

DestroySpec == GridOnlyInit /\ [][DestroyNext]_vars

\* the grids of the conversion scenarios: <<gridWidth, gridHeight, offsetX,
\* offsetY>>, the grid of the model, the 10 x 10 grid of the tests, and the
\* grid of the model with a world offset
CellGrids == { <<GridWidth, GridHeight, 0, 0>>, <<10, 10, 0, 0>>,
               <<GridWidth, GridHeight, -64, -64>> }

\* world coordinates passed to spatial_grid_world_to_cell: the values of the
\* tests and both sides of the edges of the three worlds
CellCoords == {-65, -64, -1, 0, 63, 64, 100, 127, 128, 191, 192, 639, 640, 1000}

\* what the caller's cellX and cellY, locals without an initialiser, hold
\* before the first call
StaleCell == 255

CellInit ==
    /\ PoolInit
    /\ SceneInit
    /\ pool.memory = 4096
    /\ \E gr \in CellGrids :
          grid = spatial_grid_create(GridCellSize, gr[1], gr[2], gr[3], gr[4],
                                     GridMaxObjects)
    /\ objs = [o \in Objects |-> [id |-> ObjectIds[o], x |-> 0, y |-> 0,
                                  active |-> TRUE, staticObject |-> FALSE]]
    /\ gcall = [op |-> "create", obj |-> NULL, ret |-> TRUE,
                worldX |-> 0, worldY |-> 0, cellX |-> StaleCell, cellY |-> StaleCell]
    /\ query = spatial_query_create(QueryMaxResults)

\* a call of spatial_grid_world_to_cell(grid, worldX, worldY, &cellX, &cellY)
\* with the caller's cellX and cellY of the call before
WorldToCell(worldX, worldY) ==
    /\ LET wc == spatial_grid_world_to_cell_out(grid, worldX, worldY,
                                                gcall.cellX, gcall.cellY)
       IN  gcall' = [op |-> "world_to_cell", obj |-> NULL, ret |-> wc.ok,
                     worldX |-> worldX, worldY |-> worldY,
                     cellX |-> wc.cellX, cellY |-> wc.cellY]
    /\ UNCHANGED <<grid, objs, query>>
    /\ UNCHANGED poolVars
    /\ UNCHANGED sceneVars

CellNext == \E worldX \in CellCoords, worldY \in CellCoords : WorldToCell(worldX, worldY)

CellSpec == CellInit /\ [][CellNext]_vars

\* the game objects created and not destroyed: the slots of the scene's
\* gameObjectPool that are handed out
LiveObjects(s) ==
    {a \in SlotAddrs(s.gameObjectPool) :
        s.gameObjectPool.objectStates[object_pool_get_object_index(s.gameObjectPool, a)] # 0}

\* a call of game_object_create(scene)
GoCreate ==
    /\ g_nextGameObjectId <= MaxCreates
    /\ LET r == game_object_create(scene, gobj, g_nextGameObjectId)
       IN  /\ scene' = r.scene
           /\ gobj' = r.gobj
           /\ g_nextGameObjectId' = r.nextId
           /\ scall' = [op |-> "game_object_create", obj |-> NULL, arg |-> NULL,
                        ret |-> r.ret, calls |-> <<>>, adds |-> scall.adds]
    /\ UNCHANGED poolVars
    /\ UNCHANGED gridVars

\* a call of game_object_set_parent(child, parent)
GoSetParent(child, parent) ==
    /\ LET r == game_object_set_parent(gobj, child, parent)
       IN  /\ gobj' = r.gobj
           /\ scall' = [op |-> "game_object_set_parent", obj |-> child, arg |-> parent,
                        ret |-> r.ret, calls |-> <<>>, adds |-> scall.adds]
    /\ UNCHANGED <<scene, g_nextGameObjectId>>
    /\ UNCHANGED poolVars
    /\ UNCHANGED gridVars

\* a call of game_object_set_active(gameObject, active)
GoSetActive(gameObject, active) ==
    /\ gobj[gameObject].active # active
    /\ gobj' = game_object_set_active(gobj, gameObject, active)
    /\ scall' = [op |-> "game_object_set_active", obj |-> gameObject, arg |-> active,
                 ret |-> NULL, calls |-> <<>>, adds |-> scall.adds]
    /\ UNCHANGED <<scene, g_nextGameObjectId>>
    /\ UNCHANGED poolVars
    /\ UNCHANGED gridVars

\* a call of scene_add_game_object(scene, gameObject)
SceneAdd(gameObject) ==
    /\ scall.adds < MaxSceneAdds
    /\ LET r == scene_add_game_object(scene, gobj, gameObject)
       IN  /\ scene' = r.scene
           /\ scall' = [op |-> "scene_add_game_object", obj |-> gameObject, arg |-> NULL,
                        ret |-> r.ret, calls |-> <<>>, adds |-> scall.adds + 1]
    /\ UNCHANGED <<gobj, g_nextGameObjectId>>
    /\ UNCHANGED poolVars
    /\ UNCHANGED gridVars

\* a call of scene_remove_game_object(scene, gameObject)
SceneRemove(gameObject) ==
    /\ LET r == scene_remove_game_object(scene, gobj, gameObject)
       IN  /\ scene' = r.scene
           /\ scall' = [op |-> "scene_remove_game_object", obj |-> gameObject,
                        arg |-> NULL, ret |-> r.ret, calls |-> <<>>, adds |-> scall.adds]
    /\ UNCHANGED <<gobj, g_nextGameObjectId>>
    /\ UNCHANGED poolVars
    /\ UNCHANGED gridVars

\* a call of game_object_destroy(gameObject)
GoDestroy(gameObject) ==
    /\ LET w == game_object_destroy([scene |-> scene, gobj |-> gobj, calls |-> <<>>],
                                    gameObject, 2 * scene.gameObjectCapacity)
       IN  /\ scene' = w.scene
           /\ gobj' = w.gobj
           /\ scall' = [op |-> "game_object_destroy", obj |-> gameObject, arg |-> NULL,
                        ret |-> NULL, calls |-> w.calls, adds |-> scall.adds]
    /\ UNCHANGED g_nextGameObjectId
    /\ UNCHANGED poolVars
    /\ UNCHANGED gridVars

\* a call of scene_destroy(scene), the last call on a scene; the state
\* afterwards keeps the scene as it was when its memory was released
SceneDestroy ==
    /\ scall.op # "scene_destroy"
    /\ LET w == scene_destroy(scene, gobj)
       IN  /\ scene' = w.scene
           /\ gobj' = w.gobj
           /\ scall' = [op |-> "scene_destroy", obj |-> NULL, arg |-> NULL,
                        ret |-> NULL, calls |-> w.calls, adds |-> scall.adds]
    /\ UNCHANGED g_nextGameObjectId
    /\ UNCHANGED poolVars
    /\ UNCHANGED gridVars

\* the scene on its own: the stand-alone pool and the grid stay as initialised
SceneOnlyInit == GridOnlyInit

\* the hierarchy: game objects are created and given parents
HierarchyNext ==
    \/ GoCreate
    \/ \E child \in LiveObjects(scene), parent \in LiveObjects(scene) \cup {NULL} :
           GoSetParent(child, parent)

HierarchySpec == SceneOnlyInit /\ [][HierarchyNext]_vars

\* the life of a scene up to scene_destroy: game objects are created and
\* given parents, then the scene is destroyed
TeardownNext ==
    \/ scall.op # "scene_destroy" /\ GoCreate
    \/ scall.op # "scene_destroy"
       /\ \E child \in LiveObjects(scene), parent \in LiveObjects(scene) \cup {NULL} :
              GoSetParent(child, parent)
    \/ SceneDestroy

TeardownSpec == SceneOnlyInit /\ [][TeardownNext]_vars

\* the active flag and the membership of the scene: game objects are
\* created, flagged, taken out of the scene, entered again and destroyed
ActiveNext ==
    \/ GoCreate
    \/ \E o \in LiveObjects(scene), b \in BOOLEAN : GoSetActive(o, b)
    \/ \E o \in LiveObjects(scene) : SceneAdd(o)
    \/ \E o \in LiveObjects(scene) : SceneRemove(o)
    \/ \E o \in LiveObjects(scene) : GoDestroy(o)

ActiveSpec == SceneOnlyInit /\ [][ActiveNext]_vars

(***************************************************************************)
(* Properties of the object pool                                           *)
(***************************************************************************)

\* C1: after every alloc/free call, failed or not, used count + free count
\* equals the capacity and freeCount never exceeds the capacity.
C1_CapacityInvariant ==
    /\ object_pool_get_used_count(pool) + object_pool_get_free_count(pool) = pool.capacity
    /\ pool.freeCount <= pool.capacity

\* a failed free has just been made on a partly used pool that has already
\* seen successful allocs and frees
C1_Witness ==
    /\ pcall.op = "free" /\ pcall.ret = "POOL_ERROR_DOUBLE_FREE"
    /\ hist.freeOk > 0 /\ hist.allocFailed
    /\ pool.freeCount > 0 /\ pool.freeCount < pool.capacity

\* C2: the slots handed out by successful allocs and not yet successfully
\* freed are pairwise distinct: no slot is handed out twice.
C2_NoAliasing ==
    \A a \in DOMAIN held : held[a] <= 1

\* a slot has been freed and handed out again while another one is held
C2_Witness ==
    /\ pcall.op = "alloc" /\ pcall.ret # NULL
    /\ hist.freeOk > 0
    /\ Cardinality({a \in DOMAIN held : held[a] = 1}) >= 2

\* C3: free on a slot of this pool whose state byte reads free returns
\* double-free and changes nothing of the pool.
C3_DoubleFreeRejected ==
    [][ ( /\ pcall'.op = "free"
          /\ pcall'.arg \in SlotAddrs(pool)
          /\ pool.objectStates[(pcall'.arg - pool.memory) \div pool.elementSize] = 0 )
        => ( /\ pcall'.ret = "POOL_ERROR_DOUBLE_FREE"
             /\ pool' = pool ) ]_vars

\* free(x) succeeded and the following free(x) was rejected
C3_Witness ==
    /\ pcall.op = "free" /\ pcall.ret = "POOL_ERROR_DOUBLE_FREE"
    /\ hist.freeOk > 0
    /\ held[pcall.arg] = 0

\* C4: free on a non-null address outside the pool's block, inside it but not
\* at a multiple of the element size, or a slot of another pool, returns
\* invalid-index and leaves the pool unchanged.
C4_ForeignPointerRejected ==
    [][ ( /\ pcall'.op = "free"
          /\ pcall'.arg \in ForeignAddrs(pool) )
        => ( /\ pcall'.ret = "POOL_ERROR_INVALID_INDEX"
             /\ pool' = pool ) ]_vars

\* an address inside an allocated slot has been passed to free
C4_Witness ==
    /\ pcall.op = "free" /\ pcall.ret = "POOL_ERROR_INVALID_INDEX"
    /\ pcall.arg = pool.memory + (pool.capacity - 1) * pool.elementSize + MEMORY_ALIGNMENT
    /\ pool.objectStates[pool.capacity - 1] = 1

\* C5: freeList[freeHead .. capacity-1] holds exactly freeCount entries, each
\* a distinct slot index below the capacity; it is exactly the set of slots
\* whose state byte is free, every other slot has state byte allocated.
C5_FreeListRegion ==
    LET positions == pool.freeHead..(pool.capacity - 1)
        region    == {pool.freeList[i] : i \in positions}
    IN  /\ pool.freeHead <= pool.capacity
        /\ Cardinality(positions) = pool.freeCount
        /\ Cardinality(region) = pool.freeCount
        /\ region \subseteq 0..(pool.capacity - 1)
        /\ \A s \in 0..(pool.capacity - 1) :
              /\ (s \in region) <=> (pool.objectStates[s] = 0)
              /\ (s \notin region) => (pool.objectStates[s] = 1)

\* slots were freed out of allocation order and the pool is partly used
C5_Witness ==
    /\ hist.freeOk >= 2
    /\ pool.freeCount >= 1 /\ pool.freeCount < pool.capacity
    /\ \E i \in pool.freeHead..(pool.capacity - 2) :
          pool.freeList[i] < pool.freeList[i + 1]

\* C6: alloc on an exhausted pool returns NULL and changes nothing; alloc on
\* a pool with a free slot succeeds, in particular right after a successful
\* free; on a fresh pool exactly capacity allocs succeed before the first
\* failure.
C6_ExhaustedAlloc ==
    [][ pcall'.op = "alloc"
        => ( /\ (pool.freeCount = 0 => (pcall'.ret = NULL /\ pool' = pool))
             /\ (pool.freeCount > 0 => pcall'.ret # NULL)
             /\ ((pcall.op = "free" /\ pcall.ret = "POOL_OK") => pcall'.ret # NULL)
             /\ ((hist.freeOk = 0 /\ ~hist.allocFailed)
                   => (pcall'.ret = NULL <=> hist.allocOk = pool.capacity)) ) ]_vars

\* the pool was exhausted, an alloc failed, a free succeeded and the next
\* alloc succeeded
C6_Witness ==
    /\ pcall.op = "alloc" /\ pcall.ret # NULL
    /\ hist.allocFailed /\ hist.freeOk = 1
    /\ hist.allocOk = pool.capacity + 1
    /\ pool.freeCount = 0

\* C7: on a fresh pool the k-th consecutive alloc returns slot index k-1
\* (lowest address first).
C7_LowAddressesFirst ==
    (pcall.op = "alloc" /\ pcall.ret # NULL /\ hist.freeOk = 0)
        => pcall.ret = pool.memory + (hist.allocOk - 1) * pool.elementSize

\* C31: for every non-zero element size object_pool_init accepts, the stored
\* element size is the smallest multiple of 16 that is >= the requested
\* size, and every address alloc returns is a multiple of 16.
C31_ElementSizeAligned ==
    /\ pool.elementSize % MEMORY_ALIGNMENT = 0
    /\ pool.elementSize >= hist.requested
    /\ pool.elementSize - hist.requested < MEMORY_ALIGNMENT
    /\ (pcall.op = "alloc" /\ pcall.ret # NULL) => pcall.ret % MEMORY_ALIGNMENT = 0

\* C34: the free list is a LIFO stack: the alloc that follows a successful
\* free(x) returns x, and as long as released slots are outstanding every
\* alloc returns the one released last.
C34_FreeListLifo ==
    [][ (pcall'.op = "alloc" /\ pcall'.ret # NULL)
        => ( /\ (pcall.op = "free" /\ pcall.ret = "POOL_OK") => pcall'.ret = pcall.arg
             /\ hist.released # <<>> => pcall'.ret = Head(hist.released) ) ]_vars

\* after three frees, the second alloc in a row has returned a released
\* slot, and one released slot is still outstanding
C34_Witness ==
    /\ pcall.op = "alloc" /\ pcall.ret # NULL
    /\ hist.freeOk = 3
    /\ hist.allocOk = pool.capacity + 2
    /\ Len(hist.released) = 1

\* C36: in every reachable state of the pool freeHead + freeCount equals the
\* capacity, so a free that passes the ownership and double-free tests finds
\* freeHead > 0: object_pool_free never returns POOL_ERROR_POOL_FULL, and a
\* free that does not return POOL_OK leaves the pool, state bytes included,
\* as it was.
C36_FreeHeadPlusFreeCount ==
    [][ /\ pool.freeHead + pool.freeCount = pool.capacity
        /\ pool'.freeHead + pool'.freeCount = pool'.capacity
        /\ pcall'.op = "free" => pcall'.ret # "POOL_ERROR_POOL_FULL"
        /\ ( /\ pcall'.op = "free"
             /\ object_pool_owns_object(pool, pcall'.arg)
             /\ pool.objectStates[object_pool_get_object_index(pool, pcall'.arg)] # 0 )
           => ( /\ pool.freeHead > 0
                /\ pcall'.ret = "POOL_OK"
                /\ pool'.freeList[pool'.freeHead]
                     = object_pool_get_object_index(pool, pcall'.arg) )
        /\ (pcall'.op = "free" /\ pcall'.ret # "POOL_OK") => pool' = pool ]_vars

\* after the pool has been full, the last slot in use has been freed: the
\* push found freeHead = 1 and left it at 0
C36_Witness ==
    /\ pcall.op = "free" /\ pcall.ret = "POOL_OK"
    /\ hist.allocFailed
    /\ pool.freeHead = 0
    /\ pool.freeCount = pool.capacity

\* C29: the pool's statistics follow the history of its calls: after any
\* sequence of alloc and free calls totalAllocations is the number of allocs
\* that returned a slot and totalDeallocations the number of frees that
\* returned POOL_OK (a failed call changes neither), their difference is the
\* used count, and peakUsage is the largest used count reached since init,
\* which never exceeds the capacity.
C29_StatisticsTrackHistory ==
    /\ pool.totalAllocations = hist.allocOk
    /\ pool.totalDeallocations = hist.freeOk
    /\ pool.totalAllocations - pool.totalDeallocations = object_pool_get_used_count(pool)
    /\ pool.peakUsage = hist.maxUsed
    /\ pool.peakUsage >= object_pool_get_used_count(pool)
    /\ pool.peakUsage <= pool.capacity

\* the pool has been filled, an alloc has failed on it, slots have been
\* freed and one taken again, and the last call, a free, has failed: the
\* peak stands above the used count
C29_Witness ==
    /\ hist.allocFailed
    /\ pcall.op = "free" /\ pcall.ret # "POOL_OK"
    /\ hist.allocOk > pool.capacity
    /\ hist.freeOk >= 2
    /\ pool.peakUsage = pool.capacity
    /\ object_pool_get_used_count(pool) < pool.peakUsage

(***************************************************************************)
(* Properties of the spatial grid                                          *)
(***************************************************************************)

\* the cells of the grid
Cells == DOMAIN grid.cells

\* the places <<cell, position in the cell's list>> where an entry is linked
Links == {<<c, i>> : c \in Cells, i \in 1..(GridMaxObjects + 1)} \cap
         {l \in Cells \X (1..(GridMaxObjects + 1)) : l[2] <= Len(CellList(grid, l[1]))}

\* the places where an entry of game object o is linked
LinksOf(o) ==
    {l \in Links : grid.entryMem[CellList(grid, l[1])[l[2]]].gameObject = o}

RECURSIVE SumCounts(_)
SumCounts(cs) ==
    IF cs = {} THEN 0
    ELSE LET c == CHOOSE x \in cs : TRUE
         IN  grid.cells[c].objectCount + SumCounts(cs \ {c})

\* C8: each entity has at most one entry linked in the grid's cell lists,
\* also after add has been called twice for it.
C8_AtMostOneEntry ==
    \A o \in Objects : Cardinality(LinksOf(o)) <= 1

\* C9: for every entity id with a slot in the lookup table, the slot is
\* non-null if and only if an entry of that entity is linked in a cell list.
C9_LookupIffTracked ==
    \A o \in Objects :
        objs[o].id < grid.maxObjects
            => ((grid.objectLookup[objs[o].id] # NULL) <=> (LinksOf(o) # {}))

\* C10: totalObjects is the sum of the cells' objectCount, and each cell's
\* objectCount is the number of entries linked in that cell's list.
C10_CountsAgree ==
    /\ grid.totalObjects = SumCounts(Cells)
    /\ \A c \in Cells : grid.cells[c].objectCount = Len(CellList(grid, c))

\* an entry has been unlinked from behind the head of a cell's list: the
\* entry freed last lies in the cell of the entry that is still linked, and
\* that one was allocated after it (a fresh pool hands out high slots first)
C10_Witness ==
    /\ gcall.op = "remove" /\ gcall.ret
    /\ grid.entryPool.totalAllocations = 2
    /\ grid.entryPool.totalDeallocations = 1
    /\ grid.totalObjects = 1
    /\ LET p == grid.entryPool
           freed == p.memory + p.freeList[p.freeHead] * p.elementSize
       IN  \E c \in Cells :
              /\ grid.cells[c].objectCount = 1
              /\ grid.cells[c].objects < freed
              /\ spatial_grid_get_cell(grid, grid.entryMem[freed].cellX,
                                             grid.entryMem[freed].cellY) = c

\* the cell a game object's current position converts to, NoCell outside
\* the grid
PositionCell(gameObject) ==
    LET wc == spatial_grid_world_to_cell(grid, objs[gameObject].x, objs[gameObject].y)
    IN  IF wc.ok THEN spatial_grid_get_cell(grid, wc.cellX, wc.cellY) ELSE NoCell

\* the entry linked at a place
EntryAt(l) == CellList(grid, l[1])[l[2]]

\* C11: every entry linked in the list of cell (cx, cy) records cellX = cx
\* and cellY = cy, and no entry is linked at more than one place of the cell
\* lists.
C11_RecordedCellIsListCell ==
    /\ \A l \in Links :
          /\ grid.entryMem[EntryAt(l)].cellX = l[1] % grid.gridWidth
          /\ grid.entryMem[EntryAt(l)].cellY = l[1] \div grid.gridWidth
    /\ \A l1, l2 \in Links : EntryAt(l1) = EntryAt(l2) => l1 = l2

\* a tracked entity has just been moved to another cell by update while an
\* entry of another entity stays linked in the cell it left
C11_Witness ==
    /\ gcall.op = "update" /\ gcall.cell # NoCell /\ gcall.ret
    /\ TrackedCell(grid, objs, gcall.obj) \notin {NoCell, gcall.cell}
    /\ \E l \in Links :
          /\ l[1] = gcall.cell
          /\ grid.entryMem[EntryAt(l)].gameObject # gcall.obj

\* C14: remove of a tracked entity returns true and takes exactly one off
\* totalObjects and off the entry pool's used count; the same remove called
\* again returns false and changes nothing of the grid.
C14_IdempotentRemove ==
    [][ gcall'.op = "remove"
        => ( /\ TrackedCell(grid, objs, gcall'.obj) # NoCell
                  => ( /\ gcall'.ret
                       /\ grid'.totalObjects = grid.totalObjects - 1
                       /\ object_pool_get_used_count(grid'.entryPool)
                            = object_pool_get_used_count(grid.entryPool) - 1 )
             /\ gcall'.repeated => (~gcall'.ret /\ grid' = grid) ) ]_vars

\* remove(e) has succeeded and has been called again, with other entries
\* still linked
C14_Witness ==
    /\ gcall.op = "remove" /\ gcall.repeated /\ ~gcall.ret
    /\ grid.totalObjects = 2
    /\ grid.entryPool.totalDeallocations = 1
    /\ LinksOf(gcall.obj) = {}

\* C17: world_to_cell succeeds exactly when offsetX <= x < offsetX +
\* gridWidth * cellSize and offsetY <= y < offsetY + gridHeight * cellSize;
\* on success cellX and cellY are the floors of (x - offsetX) / cellSize and
\* (y - offsetY) / cellSize, below gridWidth and gridHeight; on failure
\* the outputs keep what they held.  On the 64/10/10/(0,0) grid (0,0) gives
\* (0,0), (100,100) gives (1,1) and (1000,1000) fails.
C17_WorldToCell ==
    [][ gcall'.op = "world_to_cell"
        => LET x  == gcall'.worldX
               y  == gcall'.worldY
               cs == grid.cellSize
               inside == /\ grid.offsetX <= x
                         /\ x < grid.offsetX + grid.gridWidth * cs
                         /\ grid.offsetY <= y
                         /\ y < grid.offsetY + grid.gridHeight * cs
               tests == /\ grid.gridWidth = 10 /\ grid.gridHeight = 10
                        /\ grid.offsetX = 0 /\ grid.offsetY = 0
           IN  /\ gcall'.ret <=> inside
               /\ gcall'.ret =>
                     /\ gcall'.cellX * cs <= x - grid.offsetX
                     /\ x - grid.offsetX < (gcall'.cellX + 1) * cs
                     /\ gcall'.cellY * cs <= y - grid.offsetY
                     /\ y - grid.offsetY < (gcall'.cellY + 1) * cs
                     /\ gcall'.cellX >= 0 /\ gcall'.cellX < grid.gridWidth
                     /\ gcall'.cellY >= 0 /\ gcall'.cellY < grid.gridHeight
               /\ ~gcall'.ret =>
                     /\ gcall'.cellX = gcall.cellX
                     /\ gcall'.cellY = gcall.cellY
               /\ (tests /\ x = 0 /\ y = 0)
                     => (gcall'.ret /\ gcall'.cellX = 0 /\ gcall'.cellY = 0)
               /\ (tests /\ x = 100 /\ y = 100)
                     => (gcall'.ret /\ gcall'.cellX = 1 /\ gcall'.cellY = 1)
               /\ (tests /\ x = 1000 /\ y = 1000) => ~gcall'.ret ]_vars

\* on the grid of the tests (1000,1000) has failed and the outputs still
\* hold the cell (1,1) of an earlier conversion
C17_Witness ==
    /\ gcall.op = "world_to_cell" /\ ~gcall.ret
    /\ gcall.worldX = 1000 /\ gcall.worldY = 1000
    /\ grid.gridWidth = 10 /\ grid.gridHeight = 10
    /\ gcall.cellX = 1 /\ gcall.cellY = 1

\* C18: an add that fails, because the position is outside the grid or the
\* entry pool is exhausted, returns false and leaves the cells with their
\* lists and counts, totalObjects, cellsWithObjects, the lookup table and
\* the entry pool's used count unchanged.
C18_FailedAddNoPartialState ==
    [][ (gcall'.op = "add" /\ ~gcall'.ret)
        => ( /\ grid'.cells = grid.cells
             /\ \A c \in Cells : CellList(grid', c) = CellList(grid, c)
             /\ grid'.totalObjects = grid.totalObjects
             /\ grid'.cellsWithObjects = grid.cellsWithObjects
             /\ grid'.objectLookup = grid.objectLookup
             /\ object_pool_get_used_count(grid'.entryPool)
                  = object_pool_get_used_count(grid.entryPool) ) ]_vars

\* an add has failed on the exhausted entry pool, for a game object inside
\* the grid, while another game object stands outside the grid, untracked
C18_Witness ==
    /\ gcall.op = "add" /\ ~gcall.ret
    /\ PositionCell(gcall.obj) # NoCell
    /\ grid.entryPool.freeCount = 0
    /\ grid.totalObjects = grid.maxObjects
    /\ \E o \in Objects : PositionCell(o) = NoCell /\ LinksOf(o) = {}

\* C19: update on an entity whose static flag is set returns true and
\* changes nothing of the grid, tracked or not, moved to another cell or
\* out of the grid or not, whatever its id.
C19_StaticUpdateNoop ==
    [][ (gcall'.op = "update" /\ game_object_is_static(objs, gcall'.obj))
        => (gcall'.ret /\ grid' = grid) ]_vars

\* update has been called on a tracked entity that is flagged static and
\* stands outside the grid, away from the cell of its entry, while a static
\* entity whose id has no slot in the lookup table is linked as well
C19_Witness ==
    /\ gcall.op = "update" /\ gcall.ret /\ gcall.cell # NoCell
    /\ game_object_is_static(objs, gcall.obj)
    /\ PositionCell(gcall.obj) = NoCell
    /\ LinksOf(gcall.obj) # {}
    /\ \E o \in Objects :
          /\ objs[o].id >= grid.maxObjects
          /\ game_object_is_static(objs, o)
          /\ LinksOf(o) # {}

\* C20: update on a tracked non-static entity whose position converts to the
\* cell its entry records returns true and changes nothing of the grid: the
\* entry stays where it is in the cell's list, and the counters, the lookup
\* table and the entry pool are unchanged.
C20_SameCellUpdateNoop ==
    [][ ( /\ gcall'.op = "update"
          /\ ~game_object_is_static(objs, gcall'.obj)
          /\ TrackedCell(grid, objs, gcall'.obj) # NoCell
          /\ PositionCell(gcall'.obj) = TrackedCell(grid, objs, gcall'.obj) )
        => ( /\ gcall'.ret
             /\ grid' = grid
             /\ \A c \in Cells : CellList(grid', c) = CellList(grid, c) ) ]_vars

\* update has been called on a tracked non-static entity that has moved
\* inside its cell, behind the head of the cell's list
C20_Witness ==
    /\ gcall.op = "update" /\ gcall.ret /\ gcall.moved
    /\ ~game_object_is_static(objs, gcall.obj)
    /\ gcall.cell # NoCell
    /\ PositionCell(gcall.obj) = gcall.cell
    /\ TrackedCell(grid, objs, gcall.obj) = gcall.cell
    /\ grid.cells[gcall.cell].objects # grid.objectLookup[objs[gcall.obj].id]

\* C21: update on a tracked non-static entity whose position is outside the
\* grid removes it fully: afterwards no entry of the entity is linked in any
\* cell list, its lookup slot is empty, totalObjects is one lower and its
\* entry is back in the entry pool (state byte cleared, used count one lower).
C21_UpdateOutsideRemoves ==
    [][ ( /\ gcall'.op = "update"
          /\ ~game_object_is_static(objs, gcall'.obj)
          /\ TrackedCell(grid, objs, gcall'.obj) # NoCell
          /\ PositionCell(gcall'.obj) = NoCell )
        => LET id    == objs[gcall'.obj].id
               entry == grid.objectLookup[id]
           IN  /\ \A c \in Cells :
                     \A i \in 1..Len(CellList(grid', c)) :
                         grid'.entryMem[CellList(grid', c)[i]].gameObject # gcall'.obj
               /\ grid'.objectLookup[id] = NULL
               /\ grid'.totalObjects = grid.totalObjects - 1
               /\ grid'.entryPool.objectStates[
                      object_pool_get_object_index(grid.entryPool, entry)] = 0
               /\ object_pool_get_used_count(grid'.entryPool)
                    = object_pool_get_used_count(grid.entryPool) - 1 ]_vars

\* C22: update on a non-static entity returns false when the entity's
\* position is outside the grid; it returns true only with the entity still
\* inside the grid.
C22_UpdateOutsideReturnsFalse ==
    ( /\ gcall.op = "update"
      /\ ~game_object_is_static(objs, gcall.obj)
      /\ PositionCell(gcall.obj) = NoCell )
    => ~gcall.ret

\* the entries linked in the cell lists of grid g
LinkedEntries(g) ==
    UNION { {CellList(g, c)[i] : i \in 1..Len(CellList(g, c))} : c \in DOMAIN g.cells }

\* the linked entries of g that refer to game object o
EntriesOf(g, o) == {e \in LinkedEntries(g) : g.entryMem[e].gameObject = o}

\* the game objects whose id has no slot in the lookup table
LargeIdObjects == {o \in Objects : objs[o].id >= grid.maxObjects}

\* C23: an entity whose id is >= maxObjects is accepted by add (a new entry
\* of it is linked at the head of its cell's list and totalObjects goes up by
\* one) but no slot of the lookup table ever refers to it; remove, and update
\* when the entity is not static, return false on it and leave the grid
\* unchanged; and no grid operation takes an entry of it out of its cell.
C23_LargeIdNeverRemovable ==
    [][ /\ \A o \in LargeIdObjects :
              /\ EntriesOf(grid, o) \subseteq EntriesOf(grid', o)
              /\ \A e \in EntriesOf(grid, o) :
                     /\ grid'.entryMem[e].cellX = grid.entryMem[e].cellX
                     /\ grid'.entryMem[e].cellY = grid.entryMem[e].cellY
              /\ \A i \in DOMAIN grid'.objectLookup :
                     grid'.objectLookup[i] \notin EntriesOf(grid', o)
        /\ (gcall'.op \in {"add", "remove", "update"} /\ gcall'.obj \in LargeIdObjects)
              => LET o    == gcall'.obj
                     cell == PositionCell(o)
                 IN  /\ ( /\ gcall'.op = "add"
                          /\ cell # NoCell
                          /\ object_pool_get_free_count(grid.entryPool) > 0 )
                        => ( /\ gcall'.ret
                             /\ grid'.totalObjects = grid.totalObjects + 1
                             /\ grid'.cells[cell].objects \notin LinkedEntries(grid)
                             /\ grid'.entryMem[grid'.cells[cell].objects].gameObject = o
                             /\ CellList(grid', cell)
                                  = <<grid'.cells[cell].objects>> \o CellList(grid, cell)
                             /\ grid'.objectLookup = grid.objectLookup )
                     /\ gcall'.op = "remove" => (~gcall'.ret /\ grid' = grid)
                     /\ (gcall'.op = "update" /\ ~game_object_is_static(objs, o))
                        => (~gcall'.ret /\ grid' = grid) ]_vars

\* remove has been refused for an entity with id maxObjects that has moved
\* out of the grid while its entry is still linked, behind the entry of a
\* tracked entity added to the same cell after it
C23_Witness ==
    /\ gcall.op = "remove" /\ ~gcall.ret
    /\ gcall.obj \in LargeIdObjects
    /\ PositionCell(gcall.obj) = NoCell
    /\ \E e \in EntriesOf(grid, gcall.obj) :
          LET cell == spatial_grid_get_cell(grid, grid.entryMem[e].cellX,
                                                  grid.entryMem[e].cellY)
          IN  /\ grid.cells[cell].objects # e
              /\ grid.cells[cell].objects \in {grid.objectLookup[i] :
                                                 i \in DOMAIN grid.objectLookup}

\* the slots of g's entry pool whose state byte says allocated
AllocatedEntries(g) ==
    {a \in SlotAddrs(g.entryPool) :
        g.entryPool.objectStates[object_pool_get_object_index(g.entryPool, a)] # 0}

\* the places <<cell, position in the cell's list>> of g's cell lists
LinkPlaces(g) ==
    {l \in (DOMAIN g.cells) \X (1..(g.entryPool.capacity + 1)) :
        l[2] <= Len(CellList(g, l[1]))}

\* totalObjects is the entry pool's used count and at most maxObjects, and
\* the allocated entries are the entries linked, each at one place (as many
\* places as entries)
EntriesAccounted(g) ==
    /\ g.totalObjects = object_pool_get_used_count(g.entryPool)
    /\ g.totalObjects <= g.maxObjects
    /\ AllocatedEntries(g) = LinkedEntries(g)
    /\ Cardinality(LinkPlaces(g)) = Cardinality(LinkedEntries(g))

\* C37: in every reachable state of the grid totalObjects equals the entry
\* pool's used count and is at most maxObjects, every allocated entry is
\* linked in exactly one cell list, and an add called with maxObjects
\* entries live fails and leaves totalObjects as it is.
C37_TotalIsUsedCount ==
    [][ /\ gcall.op = "create" => EntriesAccounted(grid)
        /\ EntriesAccounted(grid')
        /\ ( /\ gcall'.op = "add"
             /\ object_pool_get_used_count(grid.entryPool) = grid.maxObjects )
           => (~gcall'.ret /\ grid'.totalObjects = grid.totalObjects) ]_vars

\* an add has failed with maxObjects entries live, two of them entries of
\* the same entity
C37_Witness ==
    /\ gcall.op = "add" /\ ~gcall.ret
    /\ PositionCell(gcall.obj) # NoCell
    /\ grid.totalObjects = grid.maxObjects
    /\ \E o \in Objects : Cardinality(EntriesOf(grid, o)) = 2

\* every non-null slot of the lookup table holds an allocated entry that
\* records a game object with the slot's id and is linked in the list of the
\* cell it records
LookupSound(g, os) ==
    \A id \in DOMAIN g.objectLookup :
        g.objectLookup[id] # NULL =>
            LET entry == g.objectLookup[id]
                cell  == spatial_grid_get_cell(g, g.entryMem[entry].cellX,
                                                  g.entryMem[entry].cellY)
            IN  /\ entry \in AllocatedEntries(g)
                /\ game_object_get_id(os, g.entryMem[entry].gameObject) = id
                /\ cell # NoCell
                /\ \E i \in 1..Len(CellList(g, cell)) : CellList(g, cell)[i] = entry

\* C38: every non-null slot objectLookup[id] points to an allocated entry
\* whose game object has the id id and which is linked in the list of the
\* cell (entry.cellX, entry.cellY); a remove that succeeds takes the entry
\* the lookup table held out of that list (the list is one shorter), leaves
\* it linked nowhere, frees it and lowers the cell's count and totalObjects
\* by one; a remove that fails changes nothing
C38_LookupSlotsLinked ==
    [][ /\ gcall.op = "create" => LookupSound(grid, objs)
        /\ LookupSound(grid', objs')
        /\ (gcall'.op = "remove" /\ gcall'.ret) =>
               LET entry == grid.objectLookup[objs[gcall'.obj].id]
                   cell  == spatial_grid_get_cell(grid, grid.entryMem[entry].cellX,
                                                        grid.entryMem[entry].cellY)
               IN  /\ Len(CellList(grid', cell)) = Len(CellList(grid, cell)) - 1
                   /\ entry \notin LinkedEntries(grid')
                   /\ entry \notin AllocatedEntries(grid')
                   /\ grid'.cells[cell].objectCount = grid.cells[cell].objectCount - 1
                   /\ grid'.totalObjects = grid.totalObjects - 1
        /\ (gcall'.op = "remove" /\ ~gcall'.ret) => grid' = grid ]_vars

\* a remove has succeeded on a grid that still tracks another game object
\* and still holds an entry of the game object removed (entered twice)
C38_Witness ==
    /\ gcall.op = "remove" /\ gcall.ret
    /\ \E id \in DOMAIN grid.objectLookup : grid.objectLookup[id] # NULL
    /\ EntriesOf(grid, gcall.obj) # {}
    /\ grid.totalObjects = 2

\* C39: an update of a tracked game object that is not static and whose
\* position converts to another cell of the grid returns true, whatever the
\* number of free entries of the pool before the call; totalObjects and the
\* pool's used count are what they were, the count of the old cell is one
\* lower and the count of the new cell one higher.
C39_CrossCellUpdateSucceeds ==
    [][ ( /\ gcall'.op = "update"
          /\ gcall'.cell # NoCell
          /\ ~game_object_is_static(objs, gcall'.obj)
          /\ PositionCell(gcall'.obj) # NoCell
          /\ PositionCell(gcall'.obj) # gcall'.cell )
        => ( /\ gcall'.ret
             /\ grid'.totalObjects = grid.totalObjects
             /\ object_pool_get_used_count(grid'.entryPool)
                    = object_pool_get_used_count(grid.entryPool)
             /\ grid'.cells[gcall'.cell].objectCount
                    = grid.cells[gcall'.cell].objectCount - 1
             /\ grid'.cells[PositionCell(gcall'.obj)].objectCount
                    = grid.cells[PositionCell(gcall'.obj)].objectCount + 1 ) ]_vars

\* an update has moved a game object to another cell although the entry pool
\* was full before the call (it is as full afterwards)
C39_Witness ==
    /\ gcall.op = "update" /\ gcall.ret
    /\ gcall.cell # NoCell
    /\ PositionCell(gcall.obj) # NoCell
    /\ PositionCell(gcall.obj) # gcall.cell
    /\ object_pool_get_free_count(grid.entryPool) = 0
    /\ TrackedCell(grid, objs, gcall.obj) = PositionCell(gcall.obj)

\* game object o has entries linked in g, all of them in the list of cell
InCellOnly(g, o, cell) ==
    /\ EntriesOf(g, o) # {}
    /\ \A e \in EntriesOf(g, o) :
           spatial_grid_get_cell(g, g.entryMem[e].cellX, g.entryMem[e].cellY) = cell

\* the call gc, which left the grid g, entered a game object in a cell's
\* list: an add that returned true, or an update that returned true and
\* left the game object tracked in another cell than before
Inserted(gc, g, os) ==
    \/ gc.op = "add" /\ gc.ret
    \/ /\ gc.op = "update" /\ gc.ret
       /\ TrackedCell(g, os, gc.obj) # NoCell
       /\ TrackedCell(g, os, gc.obj) # gc.cell

\* C33: an add, or an update that moves a game object into a cell, links the
\* new entry in front of the entries the cell's list held, which keep their
\* order; and when a circle query follows and reports two game objects that
\* both lie in that cell, the one just entered is reported first.
C33_LatestEntryFirst ==
    [][ /\ Inserted(gcall', grid', objs') =>
               LET cell == PositionCell(gcall'.obj)
               IN  /\ CellList(grid', cell) # <<>>
                   /\ grid'.entryMem[Head(CellList(grid', cell))].gameObject = gcall'.obj
                   /\ Tail(CellList(grid', cell)) = CellList(grid, cell)
        /\ ( /\ gcall'.op = "query"
             /\ Inserted(gcall, grid, objs)
             /\ query'.resultCount = 2
             /\ query'.results[0] # query'.results[1]
             /\ InCellOnly(grid, query'.results[0], PositionCell(gcall.obj))
             /\ InCellOnly(grid, query'.results[1], PositionCell(gcall.obj)) )
           => query'.results[0] = gcall.obj ]_vars

\* a query has reported, first, a game object that an update had just moved
\* into the cell of the other game object it reports
C33_Witness ==
    /\ gcall.op = "query" /\ gcall.ret = 2
    /\ gcall.prev.op = "update" /\ gcall.prev.cell # NoCell
    /\ gcall.prev.cell # PositionCell(gcall.prev.obj)
    /\ query.results[0] = gcall.prev.obj
    /\ query.results[1] # gcall.prev.obj
    /\ InCellOnly(grid, query.results[0], PositionCell(gcall.prev.obj))
    /\ InCellOnly(grid, query.results[1], PositionCell(gcall.prev.obj))

(***************************************************************************)
(* Properties of the circle query                                          *)
(***************************************************************************)

\* the game objects in the results of the last query
Results == {query.results[i] : i \in 0..(query.resultCount - 1)}

\* the result buffer has room for every linked entry
BufferLargeEnough == Cardinality(Links) <= query.maxResults

\* C12: when add has accepted an active entity e, at any position inside the
\* grid, the circle query that follows immediately, centred at e's position
\* with a positive radius and a large enough buffer, returns e.
C12_RoundTrip ==
    ( /\ gcall.op = "query" /\ gcall.radius > 0
      /\ gcall.prev.op = "add" /\ gcall.prev.ret
      /\ game_object_is_active(objs, gcall.prev.obj)
      /\ gcall.centerX = objs[gcall.prev.obj].x
      /\ gcall.centerY = objs[gcall.prev.obj].y
      /\ BufferLargeEnough )
    => gcall.prev.obj \in Results

\* C13: when a tracked, active, non-static entity e has been moved to a
\* position in another cell of the grid and update(e) has been called, a
\* query centred at the new position finds e, and a query whose centre is
\* farther from the new position than its radius (such as the old position,
\* with a radius smaller than the distance moved) does not find e.
C13_MoveConsistency ==
    ( /\ gcall.op = "query" /\ gcall.radius > 0
      /\ gcall.prev.op = "update" /\ gcall.prev.moved /\ gcall.prev.cell # NoCell
      /\ game_object_is_active(objs, gcall.prev.obj)
      /\ ~game_object_is_static(objs, gcall.prev.obj)
      /\ PositionCell(gcall.prev.obj) \notin {NoCell, gcall.prev.cell}
      /\ BufferLargeEnough )
    => LET e  == gcall.prev.obj
           dx == objs[e].x - gcall.centerX
           dy == objs[e].y - gcall.centerY
       IN  /\ (dx = 0 /\ dy = 0) => e \in Results
           /\ (dx * dx + dy * dy > gcall.radius * gcall.radius) => e \notin Results

\* both corners of the bounding box of the last query convert to a cell
BoxInsideGrid ==
    /\ spatial_grid_world_to_cell(grid, gcall.centerX - gcall.radius,
                                        gcall.centerY - gcall.radius).ok
    /\ spatial_grid_world_to_cell(grid, gcall.centerX + gcall.radius,
                                        gcall.centerY + gcall.radius).ok

\* every linked entry records the cell its game object's position converts to
CellsMatchPositions ==
    \A l \in Links :
        spatial_grid_get_cell(grid, grid.entryMem[EntryAt(l)].cellX,
                                    grid.entryMem[EntryAt(l)].cellY)
            = PositionCell(grid.entryMem[EntryAt(l)].gameObject)

\* squared distance of a game object to the centre of the last query
DistanceSquared(o) ==
    (objs[o].x - gcall.centerX) * (objs[o].x - gcall.centerX)
        + (objs[o].y - gcall.centerY) * (objs[o].y - gcall.centerY)

\* the entities with a linked entry that are active, whose entry passes the
\* query's static filter, and that lie within the radius of the last query
Expected ==
    { o \in Objects :
        /\ game_object_is_active(objs, o)
        /\ DistanceSquared(o) <= gcall.radius * gcall.radius
        /\ \E l \in LinksOf(o) :
              query.includeStatic \/ ~grid.entryMem[EntryAt(l)].staticObject }

\* C15: when the bounding box of a circle query lies inside the grid, the
\* buffer is large enough and every linked entry records the cell of its
\* entity's position, the query returns exactly the tracked entities that
\* are active, pass the static filter and lie within the radius (squared
\* distance <= squared radius), and the returned count is the result count.
C15_CircleQueryExact ==
    ( /\ gcall.op = "query" /\ gcall.radius > 0
      /\ BoxInsideGrid /\ BufferLargeEnough /\ CellsMatchPositions )
    => ( /\ Results = Expected
         /\ gcall.ret = query.resultCount )

\* a query has returned an entity that lies exactly on the circle and has
\* left out an inactive entity with an entry in a scanned cell
C15_Witness ==
    /\ gcall.op = "query" /\ gcall.radius > 0
    /\ BoxInsideGrid /\ BufferLargeEnough /\ CellsMatchPositions
    /\ \E o1, o2 \in Objects :
          /\ o1 \in Results /\ o2 \notin Results
          /\ DistanceSquared(o1) = gcall.radius * gcall.radius
          /\ LinksOf(o2) # {} /\ ~game_object_is_active(objs, o2)
          /\ DistanceSquared(o2) <= gcall.radius * gcall.radius

\* exactly one corner of the bounding box of the last query converts to a cell
BoxPartlyOutside ==
    spatial_grid_world_to_cell(grid, gcall.centerX - gcall.radius,
                                     gcall.centerY - gcall.radius).ok
        # spatial_grid_world_to_cell(grid, gcall.centerX + gcall.radius,
                                           gcall.centerY + gcall.radius).ok

\* C16: a circle query of which one corner of the bounding box converts to a
\* cell and the other does not is clipped, not rejected: it returns the
\* active tracked entities inside the circle.
C16_ClippedNotRejected ==
    ( /\ gcall.op = "query" /\ gcall.radius > 0
      /\ BoxPartlyOutside /\ BufferLargeEnough /\ CellsMatchPositions )
    => Expected \subseteq Results

\* C28: spatial_grid_destroy terminates and gives every live entry back to
\* the entry pool exactly once: it calls object_pool_free once for each
\* linked entry, every call returns POOL_OK, and the entry pool's used count
\* is zero when the pool is released, entries that no slot of the lookup
\* table refers to included.
C28_DestroyDrains ==
    [][ gcall'.op = "destroy"
        => ( /\ gcall'.ret
             /\ Len(gcall'.frees) = Cardinality(LinkedEntries(grid))
             /\ Len(gcall'.frees) = object_pool_get_used_count(grid.entryPool)
             /\ \A i \in 1..Len(gcall'.frees) : gcall'.frees[i] = "POOL_OK"
             /\ object_pool_get_used_count(grid'.entryPool) = 0
             /\ \A e \in LinkedEntries(grid) :
                    grid'.entryPool.objectStates[
                        object_pool_get_object_index(grid.entryPool, e)] = 0 ) ]_vars

\* a grid has been destroyed with three entries linked, two of them in one
\* cell: the entry of an entity without a lookup slot, and two entries of
\* one entity of which the lookup table knows only one
C28_Witness ==
    /\ gcall.op = "destroy" /\ gcall.ret
    /\ Len(gcall.frees) = 3
    /\ \E o \in LargeIdObjects : EntriesOf(grid, o) # {}
    /\ \E o \in Objects \ LargeIdObjects :
          /\ Cardinality(EntriesOf(grid, o)) = 2
          /\ grid.objectLookup[objs[o].id] \in EntriesOf(grid, o)
    /\ \E c \in Cells : Len(CellList(grid, c)) = 2

\* C24: when query.includeStatic is false, a circle query never returns an
\* entity that is flagged static at the time of the query, an entity flagged
\* static after it was added included.
C24_StaticNeverReturned ==
    (gcall.op = "query" /\ gcall.radius > 0 /\ ~query.includeStatic)
    => \A o \in Results : ~game_object_is_static(objs, o)

\* C25: a circle query never stores more than query.maxResults results:
\* after every call 0 <= resultCount <= maxResults and only the slots below
\* resultCount of the buffer hold a result; and when the query scans the
\* cells (bounding box inside the grid) and more than maxResults entities
\* match, it returns exactly maxResults of them.
C25_ResultsCapped ==
    /\ 0 <= query.resultCount
    /\ query.resultCount <= query.maxResults
    /\ DOMAIN query.results = 0..(query.maxResults - 1)
    /\ ( /\ gcall.op = "query" /\ gcall.radius > 0
         /\ BoxInsideGrid /\ CellsMatchPositions
         /\ Cardinality(Expected) > query.maxResults )
       => ( /\ gcall.ret = query.maxResults
            /\ query.resultCount = query.maxResults
            /\ Results \subseteq Expected
            /\ Cardinality(Results) = query.maxResults )

\* a query has filled the buffer with one of two matching entities
C25_Witness ==
    /\ gcall.op = "query" /\ gcall.radius > 0
    /\ BoxInsideGrid /\ CellsMatchPositions
    /\ Cardinality(Expected) > query.maxResults
    /\ gcall.ret = query.maxResults
    /\ Cardinality(Links) = Cardinality(Expected)

\* C26: every circle query overwrites the results of the query before it:
\* for every centre and radius, positive or not, with the bounding box inside
\* the grid or not, the count the call returns is query.resultCount after
\* the call.
C26_QueryOverwrites ==
    gcall.op = "query" => gcall.ret = query.resultCount

\* C27: every circle query with radius > 0 adds exactly one to
\* grid.queriesPerFrame, whether it finds a result or not and wherever the
\* circle lies; no other operation on the grid changes queriesPerFrame.
C27_QueryCounted ==
    [][ /\ (gcall'.op = "query" /\ gcall'.radius > 0)
            => grid'.queriesPerFrame = grid.queriesPerFrame + 1
        /\ gcall'.op # "query"
            => grid'.queriesPerFrame = grid.queriesPerFrame ]_vars

\* C30: after spatial_grid_mark_static(grid, e, true) the grid treats e as
\* static: the update of e that follows is skipped (returns true, grid
\* unchanged) and the query with includeStatic false that follows does not
\* return e; after spatial_grid_mark_static(grid, e, false) e is dynamic
\* again: the update that follows moves the entry of a tracked e to the cell
\* of its position.
C30_MarkStaticTakesEffect ==
    [][ /\ ( /\ gcall.op = "mark_static" /\ gcall.isStatic
             /\ gcall'.op = "update" /\ gcall'.obj = gcall.obj )
           => (gcall'.ret /\ grid' = grid)
        /\ ( /\ gcall.op = "mark_static" /\ gcall.isStatic
             /\ gcall'.op = "query" /\ ~query'.includeStatic )
           => \A i \in 0..(query'.resultCount - 1) : query'.results[i] # gcall.obj
        /\ ( /\ gcall.op = "mark_static" /\ ~gcall.isStatic
             /\ gcall'.op = "update" /\ gcall'.obj = gcall.obj
             /\ TrackedCell(grid, objs, gcall.obj) # NoCell
             /\ PositionCell(gcall.obj) # NoCell )
           => TrackedCell(grid', objs, gcall.obj) = PositionCell(gcall.obj) ]_vars

(***************************************************************************)
(* Properties of the game-object hierarchy and the scene                   *)
(***************************************************************************)

\* the children of a game object, firstChild first, along nextSibling
RECURSIVE SiblingsFrom(_, _, _)
SiblingsFrom(mem, child, fuel) ==
    IF child = NULL \/ fuel = 0 THEN <<>>
    ELSE <<child>> \o SiblingsFrom(mem, mem[child].nextSibling, fuel - 1)

ChildList(mem, gameObject) ==
    SiblingsFrom(mem, mem[gameObject].firstChild, Cardinality(DOMAIN mem) + 1)

\* the game objects below a game object: its children, their children, ...
RECURSIVE Descendants(_, _, _)
Descendants(mem, gameObject, fuel) ==
    IF fuel = 0 THEN {}
    ELSE LET children == {ChildList(mem, gameObject)[i] :
                             i \in 1..Len(ChildList(mem, gameObject))}
         IN  children \cup UNION {Descendants(mem, c, fuel - 1) : c \in children}

\* from every live game object the parent pointers lead to NULL, and a game
\* object is in the child list of p, at exactly one place, when p is its
\* parent, and in no child list otherwise
HierarchySound(mem, live) ==
    /\ \A o \in live : ParentWalk(mem, mem[o].parent, o, Cardinality(live)) = "end"
    /\ \A o \in live, p \in live :
           Cardinality({i \in 1..Len(ChildList(mem, p)) : ChildList(mem, p)[i] = o})
               = IF mem[o].parent = p THEN 1 ELSE 0

\* C32: game_object_set_parent(child, parent) returns
\* GAMEOBJECT_ERROR_HIERARCHY_CYCLE and changes nothing when parent is child
\* or a game object below child, and otherwise returns GAMEOBJECT_OK, makes
\* parent the parent of child and puts child in front of the other children
\* of parent, which keep their order; in every state the parent pointers of
\* every game object lead to NULL and each game object with parent p is at
\* exactly one place of p's child list.
C32_HierarchyAcyclic ==
    [][ /\ scall.op = "scene_create" => HierarchySound(gobj, LiveObjects(scene))
        /\ HierarchySound(gobj', LiveObjects(scene'))
        /\ scall'.op = "game_object_set_parent" =>
               IF /\ scall'.arg # NULL
                  /\ \/ scall'.arg = scall'.obj
                     \/ scall'.arg \in Descendants(gobj, scall'.obj, Cardinality(DOMAIN gobj))
               THEN /\ scall'.ret = "GAMEOBJECT_ERROR_HIERARCHY_CYCLE"
                    /\ gobj' = gobj
               ELSE /\ scall'.ret = "GAMEOBJECT_OK"
                    /\ gobj'[scall'.obj].parent = scall'.arg
                    /\ scall'.arg # NULL =>
                           ChildList(gobj', scall'.arg)
                               = <<scall'.obj>> \o Without(ChildList(gobj, scall'.arg),
                                                           scall'.obj) ]_vars

\* set_parent has refused to put a game object under the child of its child
C32_Witness ==
    /\ scall.op = "game_object_set_parent"
    /\ scall.ret = "GAMEOBJECT_ERROR_HIERARCHY_CYCLE"
    /\ scall.arg # scall.obj
    /\ gobj[scall.arg].parent # scall.obj
    /\ gobj[gobj[scall.arg].parent].parent = scall.obj

\* the game objects in the scene: those the first gameObjectCount slots of
\* the gameObjects array hold
InScene(s) == {s.gameObjects[i] : i \in 0..(s.gameObjectCount - 1)}

\* the number of places of a sequence that hold x
Occurrences(seq, x) == Cardinality({i \in 1..Len(seq) : seq[i] = x})

\* C35: scene_destroy calls game_object_destroy exactly once on every game
\* object that is in the scene when it is called, whatever the parents of
\* the game objects and the order they were created in.
C35_DestroysEachOnce ==
    [][ scall'.op = "scene_destroy"
        => \A o \in InScene(scene) : Occurrences(scall'.calls, o) = 1 ]_vars

\* C40: scene.activeObjectCount is the number of game objects in the scene
\* whose active flag is set, whatever calls of game_object_create,
\* game_object_set_active, scene_add_game_object, scene_remove_game_object
\* and game_object_destroy have been made; it never passes below 0.
C40_ActiveCountExact ==
    /\ scene.activeObjectCount
           = Cardinality({o \in InScene(scene) : game_object_is_active(gobj, o)})
    /\ scene.activeObjectCount <= scene.gameObjectCapacity

====
